---------------------------- MODULE Spec2Model ----------------------------
(* Salesforce -> HubSpot migration pipeline (start-connect).              *)
(* Model of process_file_mapping / process_chatter_migration              *)
(* (commands/business.rs), the grouping functions of csv/processor.rs and *)
(* the remote calls of hubspot.rs.                                        *)
(*                                                                        *)
(* Strings whose characters the code inspects (record ids, file names,    *)
(* paths) are sequences of one-character strings.                         *)
EXTENDS Integers, Sequences, FiniteSets, TLC

(* ------------------------------ bounds ------------------------------ *)
\* rows of ContentDocumentLink.csv in one file-mapping run
MaxLinkRows == 2
\* rows of FeedItem.csv in one chatter run
MaxFeedRows == 3
\* remote calls that fail in one run
MaxFaults == 2
\* property values handed to one batch_find_records call (SpecResolver)
MaxIds == 201
\* rows of FeedComment.csv (SpecGroup)
MaxComments == 3

(* ------------------------- program constants ------------------------ *)
batch_size == 100

(* ---------------------------- input data ---------------------------- *)
P001a == <<"0", "0", "1", "a">>
P001b == <<"0", "0", "1", "b">>
P003a == <<"0", "0", "3", "a">>
ParentIds == {P001a, P001b, P003a}

D1 == <<"0", "6", "9", "x">>
D2 == <<"0", "6", "9", "y">>
D3 == <<"0", "6", "9", "z">>
DocIds == {D1, D2}

Salesforce == <<"s", "a", "l", "e", "s", "f", "o", "r", "c", "e">>

\* ContentVersion.csv rows: D1 has inline data and an upper-case extension
\* behind a directory, D2 has inline data and no extension.
CvRow1 == [id |-> <<"v", "1">>, content_document_id |-> D1,
           path_on_client |-> <<"d", "/", "a", ".", "P">>, version_data |-> TRUE]
CvRow2 == [id |-> <<"v", "2">>, content_document_id |-> D2,
           path_on_client |-> <<"b">>, version_data |-> TRUE]
CvRow2NoData == [id |-> <<"v", "2">>, content_document_id |-> D2,
                 path_on_client |-> <<"b">>, version_data |-> FALSE]
CvFiles == {<<CvRow1, CvRow2>>, <<CvRow1, CvRow2NoData>>}

Pre001 == <<"0", "0", "1">>
Pre003 == <<"0", "0", "3">>
MapContacts == [hubspot_object |-> "contacts", salesforce_property |-> "sf_id"]
MapCompanies == [hubspot_object |-> "companies", salesforce_property |-> "sf_id"]
MappingsBoth == (Pre001 :> MapContacts) @@ (Pre003 :> MapCompanies)
MappingChoices == {MappingsBoth}

\* the parents the HubSpot account can hold a record for (P001a and P001b are
\* interchangeable, so P001b is held only together with P001a)
RemoteChoices == {S \in SUBSET ParentIds : P001b \in S => P001a \in S}

(* ----------------------------- helpers ------------------------------ *)
EmptyMap == [x \in {} |-> <<>>]

Range(s) == {s[i] : i \in 1..Len(s)}

Min(a, b) == IF a < b THEN a ELSE b

\* every order in which a HashMap / HashSet can hand out the elements of S
Orderings(S) ==
  {s \in [1..Cardinality(S) -> S] : \A i, j \in 1..Cardinality(S) : i # j => s[i] # s[j]}

SeqsUpTo(S, n) == UNION {[1..k -> S] : k \in 1..n}

\* str.to_lowercase() on the alphabet of the model
LowerChar(c) == IF c = "P" THEN "p" ELSE c
to_lowercase(s) == [i \in 1..Len(s) |-> LowerChar(s[i])]

RECURSIVE rfindFrom(_, _, _)
rfindFrom(s, c, i) == IF i = 0 THEN 0 ELSE IF s[i] = c THEN i ELSE rfindFrom(s, c, i - 1)
\* str.rfind(c): the last position of c in s, 0 for None
rfind(s, c) == rfindFrom(s, c, Len(s))

\* path.split('/').next_back(): the part behind the last '/'
LastPathSegment(s) == SubSeq(s, rfind(s, "/") + 1, Len(s))

\* a String is the sequence of its characters; "e-acute" stands for the one
\* character U+00E9, which takes two bytes in UTF-8, every other character takes one
Utf8Width(c) == IF c = "e-acute" THEN 2 ELSE 1

RECURSIVE len(_)
\* str.len(): the length in bytes
len(s) == IF s = <<>> THEN 0 ELSE Utf8Width(s[1]) + len(Tail(s))

\* str.is_char_boundary(n)
is_char_boundary(s, n) == \E k \in 0..Len(s) : len(SubSeq(s, 1, k)) = n

\* &id[..3] of an id with id.len() >= 3: the characters in the first 3 bytes;
\* the slice panics when byte 3 is no character boundary
Prefix3(id) ==
  IF \A i \in 1..Min(3, Len(id)) : Utf8Width(id[i]) = 1 THEN SubSeq(id, 1, 3)
  ELSE SubSeq(id, 1, CHOOSE k \in 0..Len(id) :
                       /\ len(SubSeq(id, 1, k)) <= 3
                       /\ (k < Len(id) => len(SubSeq(id, 1, k + 1)) > 3))

\* the file name both flows derive for a file (name_version.ext, extension lower-cased)
SafeFilename(file_data) ==
  LET filename == file_data.path_on_client
      dot_pos == rfind(filename, ".")
  IN IF dot_pos > 0
       THEN SubSeq(filename, 1, dot_pos - 1) \o <<"_">> \o file_data.version_id
              \o to_lowercase(SubSeq(filename, dot_pos, Len(filename)))
       ELSE filename \o <<"_">> \o file_data.version_id

\* format!("salesforce/{}", safe_filename): the path get_file_by_path is asked for
CheckPath(safe_filename) == Salesforce \o <<"/">> \o safe_filename

\* where the remote stores an upload: folderPath "salesforce", the given file name
StoredPath(filename) == Salesforce \o <<"/">> \o filename

\* the id the remote assigned to the record / file
HsId(sf_id) == <<"h">> \o sf_id
FileId(path) == <<"f">> \o path


(* ------------------- csv/processor.rs: file-link flow ---------------- *)
\* the rows extract_target_records keeps
IsTargetRow(record, object_mappings) ==
  /\ len(record.linked_entity_id) >= 3
  /\ record.content_document_id # <<>>
  /\ Prefix3(record.linked_entity_id) \in DOMAIN object_mappings

\* prefix -> the (LinkedEntityId, ContentDocumentId) pairs of that prefix, in row order
extract_target_records(rows, object_mappings) ==
  LET kept == SelectSeq(rows, LAMBDA r : IsTargetRow(r, object_mappings))
      prefixes == {Prefix3(r.linked_entity_id) : r \in Range(kept)}
  IN [p \in prefixes |->
        LET mine == SelectSeq(kept, LAMBDA r : Prefix3(r.linked_entity_id) = p)
        IN [i \in 1..Len(mine) |-> <<mine[i].linked_entity_id, mine[i].content_document_id>>]]

\* the FileInfo get_file_info_and_filter_records builds from one ContentVersion row;
\* folder_files are the version ids with a readable file in the fallback folder
FileInfoOf(record, folder_files) ==
  [version_id |-> record.id,
   path_on_client |-> IF "/" \in Range(record.path_on_client)
                        THEN LastPathSegment(record.path_on_client)
                        ELSE record.path_on_client,
   version_data |-> record.version_data \/ record.id \in folder_files]

\* <<file_info, filtered_target_records>>
get_file_info_and_filter_records(cv_rows, target_records, folder_files) ==
  LET target_content_ids ==
        UNION {{pr[2] : pr \in Range(target_records[p])} : p \in DOMAIN target_records}
      found_content_ids ==
        {r.content_document_id : r \in Range(cv_rows)} \cap target_content_ids
      LastRow(doc) ==
        cv_rows[CHOOSE i \in 1..Len(cv_rows) :
                  /\ cv_rows[i].content_document_id = doc
                  /\ \A j \in (i + 1)..Len(cv_rows) : cv_rows[j].content_document_id # doc]
      file_info == [doc \in found_content_ids |-> FileInfoOf(LastRow(doc), folder_files)]
      Filtered(p) == SelectSeq(target_records[p], LAMBDA pr : pr[2] \in found_content_ids)
      kept_prefixes == {p \in DOMAIN target_records : Filtered(p) # <<>>}
  IN <<file_info, [p \in kept_prefixes |-> Filtered(p)]>>

\* mutant: one ProcessableRecord per link row instead of one per Salesforce id
group_records_per_row(records, found_hubspot_records) ==
  LET kept == SelectSeq(records, LAMBDA pr : pr[1] \in DOMAIN found_hubspot_records)
  IN {[salesforce_id |-> pr[1], content_document_ids |-> <<pr[2]>>] : pr \in Range(kept)}

\* the ProcessableRecords of one prefix (the Vec comes out of a HashMap: any order)
group_records_by_salesforce_id(records, found_hubspot_records) ==
  LET kept == SelectSeq(records, LAMBDA pr : pr[1] \in DOMAIN found_hubspot_records)
      ids == {pr[1] : pr \in Range(kept)}
      DocsOf(id) == LET mine == SelectSeq(kept, LAMBDA pr : pr[1] = id)
                    IN [i \in 1..Len(mine) |-> mine[i][2]]
  IN {[salesforce_id |-> id, content_document_ids |-> DocsOf(id)] : id \in ids}

(* ------------------------- hubspot.rs: resolver ---------------------- *)
\* what one search call can come to: a 2xx answer that parses, a non-2xx status,
\* a transport error of send(), a 2xx answer that does not parse
SearchOutcomes == {"ok", "status", "transport", "parse"}

RECURSIVE chunks(_, _)
\* slice::chunks
chunks(values, n) ==
  IF values = <<>> THEN <<>>
  ELSE <<SubSeq(values, 1, Min(n, Len(values)))>>
         \o chunks(SubSeq(values, Min(n, Len(values)) + 1, Len(values)), n)

\* the records the remote holds whose property is IN the chunk, as sf_id -> record id
SearchHits(chunk, remote_ids) == [id \in Range(chunk) \cap remote_ids |-> HsId(id)]

\* one remote call in the log of calls: the operation, the unit it was made for,
\* its argument, what it came to, and (file calls) whether the remote held the
\* path when the call was made
FileEvent(op, sf, key, res, held) ==
  [op |-> op, sf |-> sf, key |-> key, res |-> res, held |-> held]
Event(op, sf, key, res) == FileEvent(op, sf, key, res, FALSE)

RECURSIVE BatchLoop(_, _, _, _, _, _)
BatchLoop(chs, oracle, remote_ids, i, found_records, log) ==
  IF i > Len(chs)
    THEN [ok |-> TRUE, map |-> found_records, calls |-> log]
    ELSE LET call == Event("search", <<>>, chs[i], oracle[i])
         IN IF oracle[i] \in {"transport", "parse"}
              THEN [ok |-> FALSE, map |-> EmptyMap, calls |-> Append(log, call)]
              ELSE BatchLoop(chs, oracle, remote_ids, i + 1,
                             IF oracle[i] = "ok"
                               THEN SearchHits(chs[i], remote_ids) @@ found_records
                               ELSE found_records,
                             log \o <<call, Event("sleep", <<>>, <<>>, "ok")>>)

\* batch_find_records against a remote holding remote_ids; oracle[i] is what the
\* i-th search call comes to.  Ok(map) or Err, with the calls it made.
batch_find_records(property_values, oracle, remote_ids) ==
  BatchLoop(chunks(property_values, batch_size), oracle, remote_ids, 1, EmptyMap, <<>>)

\* the oracles of a call with the given number of search calls
SearchOracles(n) == [1..n -> SearchOutcomes]

NumChunks(property_values) == (Len(property_values) + batch_size - 1) \div batch_size

\* the failed calls among the calls a function made
FaultsIn(log) == Cardinality({i \in 1..Len(log) : log[i].res \notin {"ok", "found", "none"}})

(* ------------- hubspot.rs: notes; hubspot/object_types.rs ------------ *)
\* mutant: every note is associated as a note of a contact
association_type_id_of_contacts(object_type) == 202

\* the `match object_type` of create_note_for_record
association_type_id(object_type) ==
  CASE object_type = "contacts" -> 202
    [] object_type = "companies" -> 190
    [] object_type = "deals" -> 214
    [] object_type = "tickets" -> 226
    [] OTHER -> 202

RECURSIVE join(_, _)
\* ids.join(sep)
join(ids, sep) ==
  IF ids = <<>> THEN <<>>
  ELSE IF Len(ids) = 1 THEN ids[1]
  ELSE ids[1] \o sep \o join(Tail(ids), sep)

\* the CreateNoteRequest create_note_for_record posts; an Option is <<>> for None
\* and <<x>> for Some(x); outcome is what the request comes to
create_note_for_record(hubspot_record_id, object_type, file_ids, outcome) ==
  [ok |-> outcome = "ok",
   request |-> [hs_attachment_ids |-> IF file_ids = <<>> THEN <<>>
                                      ELSE <<join(file_ids[1], <<";">>)>>,
                to |-> hubspot_record_id,
                association_category |-> "HUBSPOT_DEFINED",
                association_type_id |-> association_type_id(object_type)]]

\* the table of get_object_type_id: object name -> type id
StandardObjectTypeIds ==
  [companies |-> <<"0-2">>, contacts |-> <<"0-1">>, deals |-> <<"0-3">>,
   tickets |-> <<"0-5">>, appointments |-> <<"0-421">>, calls |-> <<"0-48">>,
   communications |-> <<"0-18">>, courses |-> <<"0-410">>, emails |-> <<"0-49">>,
   feedback_submissions |-> <<"0-19">>, invoices |-> <<"0-53">>, leads |-> <<"0-136">>,
   line_items |-> <<"0-8">>, listings |-> <<"0-420">>, marketing_events |-> <<"0-54">>,
   meetings |-> <<"0-47">>, notes |-> <<"0-46">>, orders |-> <<"0-123">>,
   payments |-> <<"0-101">>, postal_mail |-> <<"0-116">>, products |-> <<"0-7">>,
   quotes |-> <<"0-14">>, services |-> <<"0-162">>, subscriptions |-> <<"0-69">>,
   tasks |-> <<"0-27">>, users |-> <<"0-115">>]

\* get_object_type_id; format!("2-{}", name) is the literal followed by the name
get_object_type_id(object_name) ==
  IF object_name \in DOMAIN StandardObjectTypeIds
    THEN StandardObjectTypeIds[object_name]
    ELSE <<"2-", object_name>>

\* build_record_url: https://{ui_domain}/contacts/{portal_id}/record/{type_id}/{record_id}
build_record_url(ui_domain, portal_id, object_name, record_id) ==
  <<"https://", ui_domain, "/contacts/", portal_id, "/record/">>
    \o get_object_type_id(object_name) \o <<"/">> \o record_id

(* --------------------- business.rs: file executor -------------------- *)
\* what the calls of one unit come to: per content id the existence check
\* ("ok" a truthful 2xx answer, "status" a non-2xx status, "err" a transport or
\* parse error) and the upload; then the note creation
ExistsOutcomes == {"ok", "status", "err"}
CallOutcomes == {"ok", "err"}
FileOracles(n) ==
  [exists : [1..n -> ExistsOutcomes], upload : [1..n -> CallOutcomes], note : CallOutcomes]

\* mutant: the lookup never finds a file
get_file_by_path_never_found(path, outcome, files) ==
  IF outcome = "err" THEN "err"
  ELSE IF outcome = "status" THEN "status"
  ELSE "none"

\* get_file_by_path: Ok(Some) / Ok(None) / Err, as the result of the call
get_file_by_path(path, outcome, files) ==
  IF outcome = "err" THEN "err"
  ELSE IF outcome = "status" THEN "status"
  ELSE IF path \in files THEN "found" ELSE "none"

LoopEnd(st, ok) ==
  [ok |-> ok, uploaded_files |-> st.uploaded_files, file_ids |-> st.file_ids,
   calls |-> st.calls, files |-> st.files]

RECURSIVE FileLoop(_, _, _, _, _)
\* the `for content_doc_id in &record.content_document_ids` loop;
\* st = [uploaded_files, file_ids, calls, files]; the result adds ok
FileLoop(record, file_info, oracle, i, st) ==
  IF i > Len(record.content_document_ids) THEN LoopEnd(st, TRUE)
  ELSE
    LET content_doc_id == record.content_document_ids[i]
    IN IF content_doc_id \notin DOMAIN file_info
         THEN FileLoop(record, file_info, oracle, i + 1, st)
         ELSE
           LET file_data == file_info[content_doc_id]
               safe_filename == SafeFilename(file_data)
               path == CheckPath(safe_filename)
               found == get_file_by_path(path, oracle.exists[i], st.files)
               checked == Append(st.calls, FileEvent("exists", record.salesforce_id, path, found,
                                                    path \in st.files))
           IN IF found = "err"
                THEN LoopEnd([st EXCEPT !.calls = checked], FALSE)
              ELSE IF found = "found"
                THEN FileLoop(record, file_info, oracle, i + 1,
                              [st EXCEPT !.calls = checked,
                                         !.file_ids = Append(@, FileId(path))])
              ELSE IF ~file_data.version_data
                THEN FileLoop(record, file_info, oracle, i + 1, [st EXCEPT !.calls = checked])
              ELSE
                LET stored == StoredPath(safe_filename)
                    up == FileEvent("upload", record.salesforce_id, stored,
                                    oracle.upload[i], stored \in st.files)
                IN IF oracle.upload[i] = "ok"
                     THEN FileLoop(record, file_info, oracle, i + 1,
                                   [uploaded_files |-> st.uploaded_files + 1,
                                    file_ids |-> Append(st.file_ids, FileId(stored)),
                                    calls |-> Append(checked, up),
                                    files |-> st.files \cup {stored}])
                     ELSE FileLoop(record, file_info, oracle, i + 1,
                                   [st EXCEPT !.calls = Append(checked, up)])

\* process_single_record: [ok, uploaded_files, note_created, reason, calls, files]
process_single_record(record, file_info, hubspot_object, hubspot_record_cache, oracle, files) ==
  LET st == FileLoop(record, file_info, oracle, 1,
                     [uploaded_files |-> 0, file_ids |-> <<>>, calls |-> <<>>, files |-> files])
      base == [ok |-> st.ok, uploaded_files |-> st.uploaded_files, note_created |-> FALSE,
               reason |-> "", calls |-> st.calls, files |-> st.files]
  IN IF ~st.ok THEN [base EXCEPT !.reason = "get_file_by_path failed"]
     ELSE IF st.file_ids = <<>> THEN base
     ELSE IF record.salesforce_id \notin DOMAIN hubspot_record_cache
       THEN [base EXCEPT !.ok = FALSE, !.reason = "no HubSpot record id"]
     ELSE
       LET note == Event("note", record.salesforce_id,
                         [id |-> hubspot_record_cache[record.salesforce_id],
                          object |-> hubspot_object, atts |-> <<st.file_ids>>,
                          association_type_id |-> association_type_id(hubspot_object)],
                         oracle.note)
       IN [base EXCEPT !.calls = Append(@, note), !.note_created = (oracle.note = "ok")]

(* -------------------- business.rs: chatter executor ------------------ *)
PostOracles(n) == [upload : [1..n -> CallOutcomes], note : CallOutcomes]

RECURSIVE PostLoop(_, _, _, _, _, _)
\* the attachment loop of one post (no existence check in this flow);
\* st = [file_ids, calls, files]
PostLoop(sf, ids, file_info, oracle, i, st) ==
  IF i > Len(ids) THEN st
  ELSE IF ids[i] \notin DOMAIN file_info \/ ~file_info[ids[i]].version_data
    THEN PostLoop(sf, ids, file_info, oracle, i + 1, st)
  ELSE
    LET stored == StoredPath(SafeFilename(file_info[ids[i]]))
        up == FileEvent("upload", sf, stored, oracle.upload[i], stored \in st.files)
    IN IF oracle.upload[i] = "ok"
         THEN PostLoop(sf, ids, file_info, oracle, i + 1,
                       [file_ids |-> Append(st.file_ids, FileId(stored)),
                        calls |-> Append(st.calls, up),
                        files |-> st.files \cup {stored}])
         ELSE PostLoop(sf, ids, file_info, oracle, i + 1,
                       [st EXCEPT !.calls = Append(@, up)])

\* mutant: a failed note creation is attempted a second time
process_feed_item_retrying(sf, post, file_info, hubspot_record_id, hubspot_object, oracle, files) ==
  LET st == PostLoop(sf, post.feed_item_attachment_ids, file_info, oracle, 1,
                     [file_ids |-> <<>>, calls |-> <<>>, files |-> files])
      note == Event("note", sf,
                    [id |-> hubspot_record_id, object |-> hubspot_object,
                     post |-> post.feed_item.id,
                     atts |-> IF st.file_ids = <<>> THEN <<>> ELSE <<st.file_ids>>,
                     association_type_id |-> association_type_id(hubspot_object)],
                    oracle.note)
  IN [note_ok |-> (oracle.note = "ok"),
      calls |-> IF oracle.note = "ok" THEN Append(st.calls, note)
                ELSE st.calls \o <<note, note>>,
      files |-> st.files]

\* one pass of `for feed_item_with_comments in &record.feed_items`:
\* [note_ok, calls, files]; atts is the Option passed as file_ids
process_feed_item(sf, post, file_info, hubspot_record_id, hubspot_object, oracle, files) ==
  LET st == PostLoop(sf, post.feed_item_attachment_ids, file_info, oracle, 1,
                     [file_ids |-> <<>>, calls |-> <<>>, files |-> files])
      note == Event("note", sf,
                    [id |-> hubspot_record_id, object |-> hubspot_object,
                     post |-> post.feed_item.id,
                     atts |-> IF st.file_ids = <<>> THEN <<>> ELSE <<st.file_ids>>,
                     association_type_id |-> association_type_id(hubspot_object)],
                    oracle.note)
  IN [note_ok |-> (oracle.note = "ok"), calls |-> Append(st.calls, note), files |-> st.files]

(* --------------------- csv/processor.rs: feed flow ------------------- *)
\* String::cmp on the alphabet of the model: byte-wise, a proper prefix first
Alphabet == <<"0", "1", "2", "3", "4", "5", "6", "7", "8", "9", "D", "a", "b", "x", "y", "z">>
CharRank(c) == CHOOSE i \in 1..Len(Alphabet) : Alphabet[i] = c

RECURSIVE StrLessFrom(_, _, _)
StrLessFrom(a, b, i) ==
  IF i > Len(a) THEN i <= Len(b)
  ELSE IF i > Len(b) THEN FALSE
  ELSE IF a[i] = b[i] THEN StrLessFrom(a, b, i + 1)
  ELSE CharRank(a[i]) < CharRank(b[i])
StrLess(a, b) == StrLessFrom(a, b, 1)

Max(S) == CHOOSE x \in S : \A y \in S : y <= x

\* mutant: x put before the first element that is not less than it, so that
\* equal keys come out in reverse
InsertByBeforeEqual(sorted, x, keys) ==
  LET p == Max({0} \cup {j \in 1..Len(sorted) : StrLess(keys[sorted[j]], keys[x])})
  IN SubSeq(sorted, 1, p) \o <<x>> \o SubSeq(sorted, p + 1, Len(sorted))

\* x put behind the last element that is not greater than it
\* (positions of the slice, compared by their keys)
InsertBy(sorted, x, keys) ==
  LET p == Max({0} \cup {j \in 1..Len(sorted) : ~StrLess(keys[x], keys[sorted[j]])})
  IN SubSeq(sorted, 1, p) \o <<x>> \o SubSeq(sorted, p + 1, Len(sorted))

\* mutant: the slice is left in the order it came in
sort_by_nothing(s, keys) == s

\* slice::sort_by comparing the keys of the elements (keys[i] is the key of s[i]):
\* a stable sort
sort_by(s, keys) ==
  LET acc[i \in 0..Len(s)] == IF i = 0 THEN <<>> ELSE InsertBy(acc[i - 1], i, keys)
  IN [j \in 1..Len(s) |-> s[acc[Len(s)][j]]]

RECURSIVE dedup(_)
\* Vec::dedup: consecutive repetitions removed
dedup(s) ==
  IF Len(s) <= 1 THEN s
  ELSE IF s[1] = s[2] THEN dedup(Tail(s))
  ELSE <<s[1]>> \o dedup(Tail(s))

\* prefix -> the FeedItem rows of that prefix, in row order
extract_chatter_records(feed_rows, object_mappings) ==
  LET kept == SelectSeq(feed_rows, LAMBDA r : /\ len(r.parent_id) >= 3
                                              /\ Prefix3(r.parent_id) \in DOMAIN object_mappings)
      prefixes == {Prefix3(r.parent_id) : r \in Range(kept)}
  IN [p \in prefixes |-> SelectSeq(kept, LAMBDA r : Prefix3(r.parent_id) = p)]

\* mutant: the comments of every post, target or not
load_feed_comments_of_any_post(comment_rows, target_feed_item_ids) ==
  [f \in {r.feed_item_id : r \in Range(comment_rows)} |->
     SelectSeq(comment_rows, LAMBDA r : r.feed_item_id = f)]

\* FeedItemId -> the comments of that post, in row order (target posts only)
load_feed_comments(comment_rows, target_feed_item_ids) ==
  LET kept == SelectSeq(comment_rows, LAMBDA r : r.feed_item_id \in target_feed_item_ids)
  IN [f \in {r.feed_item_id : r \in Range(kept)} |->
        SelectSeq(kept, LAMBDA r : r.feed_item_id = f)]

\* LinkedEntityId -> content ids, for target posts (0D5) and all comments (0D7)
load_chatter_content_document_links(rows, target_feed_item_ids) ==
  LET kept == SelectSeq(rows, LAMBDA r :
                /\ Len(r.linked_entity_id) >= 3
                /\ \/ /\ Prefix3(r.linked_entity_id) = <<"0", "D", "5">>
                      /\ r.linked_entity_id \in target_feed_item_ids
                   \/ Prefix3(r.linked_entity_id) = <<"0", "D", "7">>)
  IN [e \in {r.linked_entity_id : r \in Range(kept)} |->
        LET mine == SelectSeq(kept, LAMBDA r : r.linked_entity_id = e)
        IN [i \in 1..Len(mine) |-> mine[i].content_document_id]]

\* ContentVersion id -> ContentDocument id, the last row of an id winning
build_content_version_to_document_map(cv_rows) ==
  [v \in {r.id : r \in Range(cv_rows)} |->
     cv_rows[CHOOSE i \in 1..Len(cv_rows) :
               /\ cv_rows[i].id = v
               /\ \A j \in (i + 1)..Len(cv_rows) : cv_rows[j].id # v].content_document_id]

\* mutant: a version id with no ContentVersion row loses its reference
TranslateRecordIdOrNothing(record_id, content_version_to_document) ==
  IF Len(record_id) >= 3 /\ Prefix3(record_id) = <<"0", "6", "8">>
    THEN IF record_id \in DOMAIN content_version_to_document
           THEN content_version_to_document[record_id]
           ELSE <<>>
    ELSE record_id

\* the content id load_feed_attachments records for a RecordId
TranslateRecordId(record_id, content_version_to_document) ==
  IF Len(record_id) >= 3 /\ Prefix3(record_id) = <<"0", "6", "8">>
    THEN IF record_id \in DOMAIN content_version_to_document
           THEN content_version_to_document[record_id]
           ELSE record_id
    ELSE record_id

\* FeedEntityId -> content ids, from the FeedAttachment rows
load_feed_attachments(fa_rows, target_feed_item_ids, content_version_to_document) ==
  LET kept == SelectSeq(fa_rows, LAMBDA r :
                /\ r.attachment_type \in {"Content", "InlineImage"}
                /\ r.feed_entity_id \in target_feed_item_ids)
  IN [e \in {r.feed_entity_id : r \in Range(kept)} |->
        LET mine == SelectSeq(kept, LAMBDA r : r.feed_entity_id = e)
        IN [i \in 1..Len(mine) |->
              TranslateRecordId(mine[i].record_id, content_version_to_document)]]

\* the file map process_chatter_migration builds from ContentVersion.csv
chatter_file_info(cv_rows, content_document_links, feed_attachments) ==
  LET all_content_document_ids ==
        UNION {Range(content_document_links[e]) : e \in DOMAIN content_document_links}
          \cup UNION {Range(feed_attachments[e]) : e \in DOMAIN feed_attachments}
      present == {r.content_document_id : r \in Range(cv_rows)} \cap all_content_document_ids
  IN [doc \in present |->
        LET record == cv_rows[CHOOSE i \in 1..Len(cv_rows) :
                        /\ cv_rows[i].content_document_id = doc
                        /\ \A j \in (i + 1)..Len(cv_rows) : cv_rows[j].content_document_id # doc]
        IN [version_id |-> record.id,
            path_on_client |-> LastPathSegment(record.path_on_client),
            version_data |-> record.version_data]]

\* the FeedItemWithComments group_chatter_records builds for one post
FeedItemWithComments(feed_item, comments_by_feed_item, content_document_links, feed_attachments) ==
  LET comments == IF feed_item.id \in DOMAIN comments_by_feed_item
                    THEN comments_by_feed_item[feed_item.id] ELSE <<>>
      cdl_ids == IF feed_item.id \in DOMAIN content_document_links
                   THEN content_document_links[feed_item.id] ELSE <<>>
      fa_ids == IF feed_item.id \in DOMAIN feed_attachments
                  THEN feed_attachments[feed_item.id] ELSE <<>>
  IN [feed_item |-> feed_item,
      comments |-> sort_by(comments, [i \in 1..Len(comments) |-> comments[i].created_date]),
      feed_item_attachment_ids |-> dedup(sort_by(cdl_ids \o fa_ids, cdl_ids \o fa_ids))]

\* the posts of one parent in the order records_by_parent collects them
PostsOfParent(feed_items_by_prefix, parent) ==
  IF Prefix3(parent) \in DOMAIN feed_items_by_prefix
    THEN SelectSeq(feed_items_by_prefix[Prefix3(parent)], LAMBDA r : r.parent_id = parent)
    ELSE <<>>

\* mutant: the parents are not filtered by the resolved ids
group_chatter_records_unfiltered(feed_items_by_prefix, comments_by_feed_item, found_hubspot_records, content_document_links, feed_attachments) ==
  LET parents == {r.parent_id : r \in UNION {Range(feed_items_by_prefix[p]) :
                                             p \in DOMAIN feed_items_by_prefix}}
      Unit(parent) ==
        LET rows == PostsOfParent(feed_items_by_prefix, parent)
            items == [i \in 1..Len(rows) |->
                        FeedItemWithComments(rows[i], comments_by_feed_item,
                                             content_document_links, feed_attachments)]
        IN [salesforce_id |-> parent,
            feed_items |-> sort_by(items, [i \in 1..Len(items) |-> items[i].feed_item.created_date])]
  IN {Unit(parent) : parent \in parents}

\* the ProcessableChatterRecords (the Vec comes out of a HashMap: any order)
group_chatter_records(feed_items_by_prefix, comments_by_feed_item, found_hubspot_records, content_document_links, feed_attachments) ==
  LET parents == {r.parent_id : r \in UNION {Range(feed_items_by_prefix[p]) :
                                             p \in DOMAIN feed_items_by_prefix}}
                   \cap DOMAIN found_hubspot_records
      Unit(parent) ==
        LET rows == PostsOfParent(feed_items_by_prefix, parent)
            items == [i \in 1..Len(rows) |->
                        FeedItemWithComments(rows[i], comments_by_feed_item,
                                             content_document_links, feed_attachments)]
        IN [salesforce_id |-> parent,
            feed_items |-> sort_by(items, [i \in 1..Len(items) |-> items[i].feed_item.created_date])]
  IN {Unit(parent) : parent \in parents}

(* ------------------------------- state ------------------------------- *)
VARIABLES
  kind,                    \* "file": process_file_mapping, "chatter": process_chatter_migration
  object_mappings,         \* the command's object_mappings argument
  link_rows,               \* ContentDocumentLink.csv
  cv_rows,                 \* ContentVersion.csv
  feed_rows,               \* FeedItem.csv
  comment_rows,            \* FeedComment.csv
  fa_rows,                 \* FeedAttachment.csv
  remote_ids,              \* the Salesforce ids the HubSpot account has a record for
  files,                   \* the paths of the files the HubSpot account holds
  pc,                      \* where the command is
  result,                  \* "running", "ok" or the Err the command returned
  progress,                \* the progress events emitted so far
  target_records,
  file_info,
  filtered_target_records,
  feed_items_by_prefix,
  comments_by_feed_item,
  content_document_links,
  feed_attachments,
  csv_writer,              \* [state, rows]: the audit CSV
  summaries,
  hubspot_record_cache,
  all_processable_records, \* file flow: prefix -> Vec<ProcessableRecord>
  processable_records,     \* chatter flow: Vec<ProcessableChatterRecord>
  todo,                    \* the prefixes the running for loop has not visited yet
  cur,                     \* [prefix, i, post, notes_created]: the loops' position
  calls,                   \* the remote calls made so far
  faults,                  \* how many of them failed
  submitted,               \* prefix -> [ids, ok, found]: what was handed to the resolver and what it returned
  property_values,         \* SpecResolver: the ids handed to batch_find_records
  res1,                    \* SpecResolver: what the first call returned
  res2                     \* SpecResolver: what a second, identical call returned

inputs == <<kind, object_mappings, link_rows, cv_rows, feed_rows, comment_rows, fa_rows, remote_ids>>
loaded == <<target_records, file_info, filtered_target_records, feed_items_by_prefix,
            comments_by_feed_item, content_document_links, feed_attachments>>
report == <<csv_writer, summaries>>
units == <<hubspot_record_cache, all_processable_records, processable_records>>
remote == <<files, calls, faults>>
probe == <<property_values, res1, res2>>
vars == <<inputs, loaded, report, units, remote, pc, result, progress, todo, cur, submitted,
          probe>>

NoCur == [prefix |-> <<>>, i |-> 0, post |-> 0, notes_created |-> 0]

LinkRow(parent, doc) == [linked_entity_id |-> parent, content_document_id |-> doc]

\* the id of the i-th FeedItem row
FeedId(i) == <<"0", "D", "5", Alphabet[i + 1]>>
\* created dates by row: a later post first, then a tie
FeedDates == <<<<"2">>, <<"1">>, <<"2">>, <<"1">>, <<"3">>>>
FeedRow(i, parent) ==
  [id |-> FeedId(i), parent_id |-> parent, created_date |-> FeedDates[i]]

\* the ContentDocumentLink rows of a post with attachments: two files
FeedLinks(i) == <<LinkRow(FeedId(i), D2), LinkRow(FeedId(i), D1)>>

\* mutant: the audit CSV is created before the command validates its input
InitStateCsvOpen ==
  /\ pc = "start"
  /\ result = "running"
  /\ progress = <<>>
  /\ target_records = EmptyMap
  /\ file_info = EmptyMap
  /\ filtered_target_records = EmptyMap
  /\ feed_items_by_prefix = EmptyMap
  /\ comments_by_feed_item = EmptyMap
  /\ content_document_links = EmptyMap
  /\ feed_attachments = EmptyMap
  /\ csv_writer = [state |-> "open", rows |-> <<>>]
  /\ summaries = EmptyMap
  /\ hubspot_record_cache = EmptyMap
  /\ all_processable_records = EmptyMap
  /\ processable_records = <<>>
  /\ todo = {}
  /\ cur = NoCur
  /\ calls = <<>>
  /\ faults = 0
  /\ submitted = EmptyMap

\* what was read, written and called before the command starts: nothing
InitState ==
  /\ pc = "start"
  /\ result = "running"
  /\ progress = <<>>
  /\ target_records = EmptyMap
  /\ file_info = EmptyMap
  /\ filtered_target_records = EmptyMap
  /\ feed_items_by_prefix = EmptyMap
  /\ comments_by_feed_item = EmptyMap
  /\ content_document_links = EmptyMap
  /\ feed_attachments = EmptyMap
  /\ csv_writer = [state |-> "none", rows |-> <<>>]
  /\ summaries = EmptyMap
  /\ hubspot_record_cache = EmptyMap
  /\ all_processable_records = EmptyMap
  /\ processable_records = <<>>
  /\ todo = {}
  /\ cur = NoCur
  /\ calls = <<>>
  /\ faults = 0
  /\ submitted = EmptyMap

InitCommon ==
  /\ object_mappings \in MappingChoices
  /\ cv_rows \in CvFiles
  /\ remote_ids \in RemoteChoices
  /\ files \in {{}, {StoredPath(<<"a", "_", "v", "1", ".", "p">>),
                    StoredPath(<<"b", "_", "v", "2">>)}}
  /\ InitState

NoResult == [ok |-> FALSE, map |-> EmptyMap, calls |-> <<>>]

InitFile ==
  /\ kind = "file"
  /\ link_rows \in SeqsUpTo({LinkRow(p, d) : p \in ParentIds, d \in DocIds}, MaxLinkRows)
  /\ feed_rows = <<>>
  /\ comment_rows = <<>>
  /\ fa_rows = <<>>

InitChatter ==
  /\ kind = "chatter"
  /\ \E n \in 1..MaxFeedRows :
       \E parents \in [1..n -> ParentIds], attached \in BOOLEAN :
         /\ feed_rows = [i \in 1..n |-> FeedRow(i, parents[i])]
         /\ link_rows = IF attached THEN FeedLinks(1) ELSE <<>>
  /\ comment_rows = <<>>
  /\ fa_rows = <<>>

Init ==
  /\ InitCommon
  /\ InitFile \/ InitChatter
  /\ property_values = <<>> /\ res1 = NoResult /\ res2 = NoResult

(* ------------------------ reporting helpers -------------------------- *)
ProgressInfo(step, pct) == [step |-> step, progress |-> pct]

FileRow(sf, object, hs_id, files_count, files_uploaded, note_created, status, reason) ==
  [sf |-> sf, object |-> object, hs_id |-> hs_id, files_count |-> files_count,
   files_uploaded |-> files_uploaded, note_created |-> note_created,
   status |-> status, reason |-> reason]

ChatterRow(sf, object, hs_id, feed_items_count, notes_created, status, reason) ==
  [sf |-> sf, object |-> object, hs_id |-> hs_id, feed_items_count |-> feed_items_count,
   notes_created |-> notes_created, status |-> status, reason |-> reason]

ObjectSummary(prefix, object) ==
  [prefix |-> prefix, hubspot_object |-> object, success_count |-> 0,
   skipped_count |-> 0, error_count |-> 0, uploaded_files |-> 0]

\* summaries.entry(prefix).or_insert_with(..)
EntryOrInsert(summ, prefix, object) ==
  IF prefix \in DOMAIN summ THEN summ ELSE (prefix :> ObjectSummary(prefix, object)) @@ summ

\* the ids the resolver's map has no key for, in the order they were submitted
missing_ids(unique_ids, found_records) ==
  SelectSeq(unique_ids, LAMBDA id : id \notin DOMAIN found_records)

\* the `if found_records.len() < unique_ids.len()` block: the skipped rows
SkippedIds(unique_ids, found_records) ==
  IF Cardinality(DOMAIN found_records) < Len(unique_ids)
    THEN missing_ids(unique_ids, found_records)
    ELSE <<>>

\* mutant: the skipped count goes up by one, however many ids are missing
SkippedSummariesByOne(summ, prefix, object, unique_ids, found_records) ==
  IF Cardinality(DOMAIN found_records) < Len(unique_ids)
    THEN LET s == EntryOrInsert(summ, prefix, object)
         IN [s EXCEPT ![prefix].skipped_count = @ + 1]
    ELSE summ

\* the same block: the summaries after it
SkippedSummaries(summ, prefix, object, unique_ids, found_records) ==
  IF Cardinality(DOMAIN found_records) < Len(unique_ids)
    THEN LET s == EntryOrInsert(summ, prefix, object)
         IN [s EXCEPT ![prefix].skipped_count = @ + Len(missing_ids(unique_ids, found_records))]
    ELSE summ

\* HashMap::extend
Extend(map, more) == more @@ map

\* str::starts_with
starts_with(s, p) == Len(p) <= Len(s) /\ SubSeq(s, 1, Len(p)) = p

(* ---------------------- the commands, step by step ------------------- *)
\* emit 5, then the existence (and, in the file flow, header) checks of the input files
Validate ==
  /\ pc = "start"
  /\ \E outcome \in {"ok", "missing_file"} \cup (IF kind = "file" THEN {"missing_column"} ELSE {}) :
       /\ progress' = Append(progress, ProgressInfo("validation", 5))
       /\ IF outcome = "ok"
            THEN pc' = "auth" /\ result' = result
            ELSE pc' = "failed" /\ result' = outcome
  /\ UNCHANGED <<inputs, probe, loaded, report, units, remote, todo, cur, submitted>>

\* SecureStorage::get_credentials_with_refresh: the stored credentials are read
\* ("ok", or "auth_error" when they cannot be) or, the token being about to expire,
\* refreshed by a request to the OAuth worker that succeeds or fails
CredentialOutcomes == {"ok", "refreshed", "auth_error", "refresh_error"}
get_credentials_with_refresh(outcome) ==
  [ok |-> outcome \in {"ok", "refreshed"},
   calls |-> IF outcome = "refreshed" THEN <<Event("refresh", <<>>, <<>>, "ok")>>
             ELSE IF outcome = "refresh_error" THEN <<Event("refresh", <<>>, <<>>, "err")>>
             ELSE <<>>]

\* mutant: a failure to obtain the credentials is recorded but the command goes on
AuthenticateAndGoOn ==
  /\ pc = "auth"
  /\ \E outcome \in CredentialOutcomes :
       LET credentials == get_credentials_with_refresh(outcome)
       IN /\ progress' = Append(progress, ProgressInfo("hubspot_init", 10))
          /\ calls' = calls \o credentials.calls
          /\ pc' = "extract"
          /\ result' = IF credentials.ok THEN result ELSE "auth_error"
  /\ UNCHANGED <<inputs, probe, loaded, report, units, files, faults, todo, cur, submitted>>

\* emit 10, then SecureStorage::get_credentials_with_refresh
Authenticate ==
  /\ pc = "auth"
  /\ \E outcome \in CredentialOutcomes :
       LET credentials == get_credentials_with_refresh(outcome)
       IN /\ progress' = Append(progress, ProgressInfo("hubspot_init", 10))
          /\ calls' = calls \o credentials.calls
          /\ IF credentials.ok
               THEN pc' = "extract" /\ result' = result
               ELSE pc' = "failed" /\ result' = "auth_error"
  /\ UNCHANGED <<inputs, probe, loaded, report, units, files, faults, todo, cur, submitted>>

\* emit 20, then extract_target_records
ExtractFile ==
  /\ pc = "extract" /\ kind = "file"
  /\ progress' = Append(progress, ProgressInfo("extract_records", 20))
  /\ \E outcome \in {"ok", "malformed_row"} :
       IF outcome = "ok"
         THEN /\ target_records' = extract_target_records(link_rows, object_mappings)
              /\ pc' = "file_info" /\ result' = result
         ELSE /\ pc' = "failed" /\ result' = outcome
              /\ UNCHANGED target_records
  /\ UNCHANGED <<inputs, probe, file_info, filtered_target_records, feed_items_by_prefix,
                 comments_by_feed_item, content_document_links, feed_attachments,
                 report, units, remote, todo, cur, submitted>>

\* emit 35, then get_file_info_and_filter_records (no fallback folder)
FileInfoStep ==
  /\ pc = "file_info"
  /\ progress' = Append(progress, ProgressInfo("file_info", 35))
  /\ \E outcome \in {"ok", "malformed_row"} :
       IF outcome = "ok"
         THEN LET r == get_file_info_and_filter_records(cv_rows, target_records, {})
              IN /\ file_info' = r[1]
                 /\ filtered_target_records' = r[2]
                 /\ pc' = "create_csv" /\ result' = result
         ELSE /\ pc' = "failed" /\ result' = outcome
              /\ UNCHANGED <<file_info, filtered_target_records>>
  /\ UNCHANGED <<inputs, probe, target_records, feed_items_by_prefix, comments_by_feed_item,
                 content_document_links, feed_attachments,
                 report, units, remote, todo, cur, submitted>>

\* emit 20, then extract_chatter_records
ExtractChatter ==
  /\ pc = "extract" /\ kind = "chatter"
  /\ progress' = Append(progress, ProgressInfo("extract_records", 20))
  /\ \E outcome \in {"ok", "malformed_row"} :
       IF outcome = "ok"
         THEN /\ feed_items_by_prefix' = extract_chatter_records(feed_rows, object_mappings)
              /\ pc' = "load" /\ result' = result
         ELSE /\ pc' = "failed" /\ result' = outcome
              /\ UNCHANGED feed_items_by_prefix
  /\ UNCHANGED <<inputs, probe, target_records, file_info, filtered_target_records,
                 comments_by_feed_item, content_document_links, feed_attachments,
                 report, units, remote, todo, cur, submitted>>

\* emit 30, then the comments, the two attachment tables and the file map
LoadChatter ==
  /\ pc = "load"
  /\ progress' = Append(progress, ProgressInfo("load_comments", 30))
  /\ \E outcome \in {"ok", "malformed_row", "missing_file"} :
       IF outcome = "ok"
         THEN LET target_feed_item_ids ==
                    {r.id : r \in UNION {Range(feed_items_by_prefix[p]) :
                                         p \in DOMAIN feed_items_by_prefix}}
                  links == load_chatter_content_document_links(link_rows, target_feed_item_ids)
                  atts == load_feed_attachments(fa_rows, target_feed_item_ids,
                                                build_content_version_to_document_map(cv_rows))
              IN /\ comments_by_feed_item' = load_feed_comments(comment_rows, target_feed_item_ids)
                 /\ content_document_links' = links
                 /\ feed_attachments' = atts
                 /\ file_info' = chatter_file_info(cv_rows, links, atts)
                 /\ pc' = "create_csv" /\ result' = result
         ELSE /\ pc' = "failed" /\ result' = outcome
              /\ UNCHANGED <<comments_by_feed_item, content_document_links,
                             feed_attachments, file_info>>
  /\ UNCHANGED <<inputs, probe, target_records, filtered_target_records, feed_items_by_prefix,
                 report, units, remote, todo, cur, submitted>>

\* emit 50 (file) / 40 (chatter), then create the audit CSV and write its header
CreateCsv ==
  /\ pc = "create_csv"
  /\ progress' = Append(progress,
                        ProgressInfo("hubspot_search", IF kind = "file" THEN 50 ELSE 40))
  /\ \E outcome \in {"ok", "csv_create_error"} :
       IF outcome = "ok"
         THEN /\ csv_writer' = [state |-> "open", rows |-> <<>>]
              /\ todo' = IF kind = "file" THEN DOMAIN filtered_target_records
                                          ELSE DOMAIN feed_items_by_prefix
              /\ pc' = "resolve" /\ result' = result
         ELSE /\ pc' = "failed" /\ result' = outcome
              /\ UNCHANGED <<csv_writer, todo>>
  /\ UNCHANGED <<inputs, probe, loaded, summaries, units, remote, cur, submitted>>

\* one pass of `for (prefix, records) in &filtered_target_records` (file flow)
ResolvePrefixFile ==
  /\ pc = "resolve" /\ kind = "file"
  /\ \E prefix \in todo :
       /\ todo' = todo \ {prefix}
       /\ IF prefix \notin DOMAIN object_mappings
            THEN UNCHANGED <<report, units, remote, submitted>>
            ELSE
              LET mapping == object_mappings[prefix]
                  records == filtered_target_records[prefix]
              IN \E unique_salesforce_ids \in Orderings({pr[1] : pr \in Range(records)}) :
                 \E oracle \in SearchOracles(NumChunks(unique_salesforce_ids)) :
                   LET res == batch_find_records(unique_salesforce_ids, oracle, remote_ids)
                       Row(id) == FileRow(id, mapping.hubspot_object, <<>>, 0, 0, FALSE,
                                          "skipped", "no HubSpot record")
                   IN /\ faults + FaultsIn(res.calls) <= MaxFaults
                      /\ faults' = faults + FaultsIn(res.calls)
                      /\ calls' = calls \o [i \in 1..Len(res.calls) |->
                                              [res.calls[i] EXCEPT !.sf = prefix]]
                      /\ submitted' = (prefix :> [ids |-> Range(unique_salesforce_ids),
                                                  ok |-> res.ok,
                                                  found |-> DOMAIN res.map]) @@ submitted
                      /\ UNCHANGED <<files, processable_records>>
                      /\ IF res.ok
                           THEN /\ csv_writer' = [csv_writer EXCEPT !.rows =
                                     @ \o [i \in 1..Len(SkippedIds(unique_salesforce_ids, res.map)) |->
                                            Row(SkippedIds(unique_salesforce_ids, res.map)[i])]]
                                /\ summaries' = SkippedSummaries(summaries, prefix,
                                     mapping.hubspot_object, unique_salesforce_ids, res.map)
                                /\ hubspot_record_cache' = Extend(hubspot_record_cache, res.map)
                                /\ \E processable \in
                                       Orderings(group_records_by_salesforce_id(records, res.map)) :
                                     all_processable_records' =
                                       IF processable # <<>>
                                         THEN (prefix :> processable) @@ all_processable_records
                                         ELSE all_processable_records
                           ELSE UNCHANGED <<report, hubspot_record_cache, all_processable_records>>
  /\ UNCHANGED <<inputs, probe, loaded, pc, result, progress, cur>>

\* one pass of `for (prefix, feed_items) in &feed_items_by_prefix` (chatter flow)
ResolvePrefixChatter ==
  /\ pc = "resolve" /\ kind = "chatter"
  /\ \E prefix \in todo :
       /\ todo' = todo \ {prefix}
       /\ IF prefix \notin DOMAIN object_mappings
            THEN UNCHANGED <<report, units, remote, submitted>>
            ELSE
              LET mapping == object_mappings[prefix]
                  feed_items == feed_items_by_prefix[prefix]
              IN \E unique_parent_ids \in Orderings({r.parent_id : r \in Range(feed_items)}) :
                 \E oracle \in SearchOracles(NumChunks(unique_parent_ids)) :
                   LET res == batch_find_records(unique_parent_ids, oracle, remote_ids)
                       Row(id) == ChatterRow(id, mapping.hubspot_object, <<>>, 0, 0,
                                             "skipped", "no HubSpot record")
                   IN /\ faults + FaultsIn(res.calls) <= MaxFaults
                      /\ faults' = faults + FaultsIn(res.calls)
                      /\ calls' = calls \o [i \in 1..Len(res.calls) |->
                                              [res.calls[i] EXCEPT !.sf = prefix]]
                      /\ submitted' = (prefix :> [ids |-> Range(unique_parent_ids),
                                                  ok |-> res.ok,
                                                  found |-> DOMAIN res.map]) @@ submitted
                      /\ UNCHANGED <<files, all_processable_records, processable_records>>
                      /\ IF res.ok
                           THEN /\ csv_writer' = [csv_writer EXCEPT !.rows =
                                     @ \o [i \in 1..Len(SkippedIds(unique_parent_ids, res.map)) |->
                                            Row(SkippedIds(unique_parent_ids, res.map)[i])]]
                                /\ summaries' = SkippedSummaries(summaries, prefix,
                                     mapping.hubspot_object, unique_parent_ids, res.map)
                                /\ hubspot_record_cache' = Extend(hubspot_record_cache, res.map)
                           ELSE UNCHANGED <<report, hubspot_record_cache>>
  /\ UNCHANGED <<inputs, probe, loaded, pc, result, progress, cur>>

\* after the resolver loop: emit 70 (file); emit 60 and group_chatter_records (chatter)
ResolveDone ==
  /\ pc = "resolve" /\ todo = {}
  /\ pc' = "exec"
  /\ cur' = NoCur
  /\ IF kind = "file"
       THEN /\ progress' = Append(progress, ProgressInfo("file_processing", 70))
            /\ todo' = DOMAIN all_processable_records
            /\ UNCHANGED processable_records
       ELSE /\ progress' = Append(progress, ProgressInfo("create_notes", 60))
            /\ processable_records' \in
                 Orderings(group_chatter_records(feed_items_by_prefix, comments_by_feed_item,
                                                 hubspot_record_cache, content_document_links,
                                                 feed_attachments))
            /\ UNCHANGED todo
  /\ UNCHANGED <<inputs, probe, loaded, report, hubspot_record_cache, all_processable_records,
                 remote, result, submitted>>

\* `for (prefix, records) in &all_processable_records`: enter the next prefix
ExecNextPrefix ==
  /\ pc = "exec" /\ kind = "file" /\ cur.prefix = <<>>
  /\ \E prefix \in todo :
       /\ todo' = todo \ {prefix}
       /\ IF prefix \in DOMAIN object_mappings
            THEN /\ summaries' = EntryOrInsert(summaries, prefix,
                                               object_mappings[prefix].hubspot_object)
                 /\ cur' = [NoCur EXCEPT !.prefix = prefix, !.i = 1]
            ELSE UNCHANGED <<summaries, cur>>
  /\ UNCHANGED <<inputs, probe, loaded, csv_writer, units, remote, pc, result, progress, submitted>>

\* one pass of `for (i, record) in records.iter().enumerate()` (file flow)
ExecFileUnit ==
  /\ pc = "exec" /\ kind = "file" /\ cur.prefix # <<>>
  /\ LET prefix == cur.prefix
         mapping == object_mappings[prefix]
         records == all_processable_records[prefix]
         record == records[cur.i]
         hubspot_record_id == IF record.salesforce_id \in DOMAIN hubspot_record_cache
                                THEN hubspot_record_cache[record.salesforce_id] ELSE <<>>
         files_count == Len(record.content_document_ids)
     IN \E oracle \in FileOracles(files_count) :
          LET r == process_single_record(record, file_info, mapping.hubspot_object,
                                         hubspot_record_cache, oracle, files)
          IN /\ faults + FaultsIn(r.calls) <= MaxFaults
             /\ faults' = faults + FaultsIn(r.calls)
             /\ calls' = calls \o r.calls
             /\ files' = r.files
             /\ progress' = Append(progress,
                  ProgressInfo("file_processing", 70 + (((20 * cur.i) \div Len(records)) % 256)))
             /\ IF r.ok
                  THEN /\ summaries' = [summaries EXCEPT
                            ![prefix].success_count = @ + 1,
                            ![prefix].uploaded_files = @ + r.uploaded_files]
                       /\ csv_writer' = [csv_writer EXCEPT !.rows = Append(@,
                            FileRow(record.salesforce_id, mapping.hubspot_object,
                                    hubspot_record_id, files_count, r.uploaded_files,
                                    r.note_created, "success", ""))]
                  ELSE /\ summaries' = [summaries EXCEPT ![prefix].error_count = @ + 1]
                       /\ csv_writer' = [csv_writer EXCEPT !.rows = Append(@,
                            FileRow(record.salesforce_id, mapping.hubspot_object,
                                    hubspot_record_id, files_count, 0, FALSE,
                                    "error", r.reason))]
             /\ cur' = IF cur.i = Len(records) THEN NoCur ELSE [cur EXCEPT !.i = @ + 1]
  /\ UNCHANGED <<inputs, probe, loaded, units, pc, result, todo, submitted>>

\* the keys object_mappings.iter().find(starts_with) can return for a unit
MatchingKeys(salesforce_id, mappings) ==
  {k \in DOMAIN mappings : starts_with(salesforce_id, k)}

\* `for (i, record) in processable_records.iter().enumerate()`: enter the next unit
ChatterUnitBegin ==
  /\ pc = "exec" /\ kind = "chatter" /\ cur.post = 0
  /\ cur.i < Len(processable_records)
  /\ LET i == cur.i + 1
         record == processable_records[i]
         keys == MatchingKeys(record.salesforce_id, object_mappings)
     IN /\ progress' = Append(progress,
             ProgressInfo("create_notes",
                          60 + (((30 * i) \div Len(processable_records)) % 256)))
        /\ IF keys = {}
             THEN /\ cur' = [NoCur EXCEPT !.i = i]
                  /\ UNCHANGED summaries
             ELSE \E k \in keys :
                    /\ cur' = [prefix |-> k, i |-> i, post |-> 1, notes_created |-> 0]
                    /\ summaries' = EntryOrInsert(summaries, Prefix3(record.salesforce_id),
                                                  object_mappings[k].hubspot_object)
  /\ UNCHANGED <<inputs, probe, loaded, csv_writer, units, remote, pc, result, todo, submitted>>

\* one pass of `for feed_item_with_comments in &record.feed_items`
ChatterPost ==
  /\ pc = "exec" /\ kind = "chatter" /\ cur.post >= 1
  /\ LET record == processable_records[cur.i]
         mapping == object_mappings[cur.prefix]
         hubspot_record_id == IF record.salesforce_id \in DOMAIN hubspot_record_cache
                                THEN hubspot_record_cache[record.salesforce_id] ELSE <<>>
     IN /\ cur.post <= Len(record.feed_items)
        /\ LET post == record.feed_items[cur.post]
           IN \E oracle \in PostOracles(Len(post.feed_item_attachment_ids)) :
                LET r == process_feed_item(record.salesforce_id, post, file_info,
                                           hubspot_record_id, mapping.hubspot_object,
                                           oracle, files)
                IN /\ faults + FaultsIn(r.calls) <= MaxFaults
                   /\ faults' = faults + FaultsIn(r.calls)
                   /\ calls' = calls \o r.calls
                   /\ files' = r.files
                   /\ cur' = [cur EXCEPT !.post = @ + 1,
                                         !.notes_created = IF r.note_ok THEN @ + 1 ELSE @]
  /\ UNCHANGED <<inputs, probe, loaded, report, units, pc, result, progress, todo, submitted>>

\* mutant: no partial status, any note makes the unit a success
ChatterStatusNoPartial(notes_created, feed_items_count) ==
  IF notes_created > 0 THEN "success" ELSE "error"

\* the status of a feed unit
ChatterStatus(notes_created, feed_items_count) ==
  IF notes_created = feed_items_count THEN "success"
  ELSE IF notes_created > 0 THEN "partial"
  ELSE "error"

\* behind the posts of a unit: the summary update and the audit row
ChatterUnitEnd ==
  /\ pc = "exec" /\ kind = "chatter" /\ cur.post >= 1
  /\ LET record == processable_records[cur.i]
         mapping == object_mappings[cur.prefix]
         key == Prefix3(record.salesforce_id)
         hubspot_record_id == IF record.salesforce_id \in DOMAIN hubspot_record_cache
                                THEN hubspot_record_cache[record.salesforce_id] ELSE <<>>
         status == ChatterStatus(cur.notes_created, Len(record.feed_items))
     IN /\ cur.post = Len(record.feed_items) + 1
        /\ summaries' =
             IF key \notin DOMAIN summaries THEN summaries
             ELSE IF status = "error"
               THEN [summaries EXCEPT ![key].error_count = @ + 1]
               ELSE [summaries EXCEPT ![key].success_count = @ + 1,
                                      ![key].uploaded_files = @ + cur.notes_created]
        /\ csv_writer' = [csv_writer EXCEPT !.rows = Append(@,
             ChatterRow(record.salesforce_id, mapping.hubspot_object, hubspot_record_id,
                        Len(record.feed_items), cur.notes_created, status, ""))]
        /\ cur' = [NoCur EXCEPT !.i = cur.i]
  /\ UNCHANGED <<inputs, probe, loaded, units, remote, pc, result, progress, todo, submitted>>

\* mutant: the command returns without emitting the complete event
FinishSilently ==
  /\ pc = "exec" /\ cur.prefix = <<>> /\ cur.post = 0
  /\ IF kind = "file" THEN todo = {} ELSE cur.i = Len(processable_records)
  /\ \E outcome \in {"ok", "csv_flush_error"} :
       IF outcome = "ok"
         THEN /\ csv_writer' = [csv_writer EXCEPT !.state = "flushed"]
              /\ pc' = "done" /\ result' = "ok"
         ELSE /\ pc' = "failed" /\ result' = outcome
              /\ UNCHANGED csv_writer
  /\ UNCHANGED <<inputs, probe, loaded, summaries, units, remote, todo, cur, submitted,
                 progress>>

\* both loops are through: flush the audit CSV, emit 100, return the summaries
Finish ==
  /\ pc = "exec" /\ cur.prefix = <<>> /\ cur.post = 0
  /\ IF kind = "file" THEN todo = {} ELSE cur.i = Len(processable_records)
  /\ \E outcome \in {"ok", "csv_flush_error"} :
       IF outcome = "ok"
         THEN /\ csv_writer' = [csv_writer EXCEPT !.state = "flushed"]
              /\ progress' = Append(progress, ProgressInfo("complete", 100))
              /\ pc' = "done" /\ result' = "ok"
         ELSE /\ pc' = "failed" /\ result' = outcome
              /\ UNCHANGED <<csv_writer, progress>>
  /\ UNCHANGED <<inputs, probe, loaded, summaries, units, remote, todo, cur, submitted>>

Next ==
  \/ Validate
  \/ Authenticate
  \/ ExtractFile
  \/ FileInfoStep
  \/ ExtractChatter
  \/ LoadChatter
  \/ CreateCsv
  \/ ResolvePrefixFile
  \/ ResolvePrefixChatter
  \/ ResolveDone
  \/ ExecNextPrefix
  \/ ExecFileUnit
  \/ ChatterUnitBegin
  \/ ChatterPost
  \/ ChatterUnitEnd
  \/ Finish

Spec == Init /\ [][Next]_vars

\* the command is one async task that is driven until it returns: it always takes
\* its next step
InitLive ==
  /\ Init
  /\ remote_ids = {P001a, P003a}
  /\ files = {}
  /\ cv_rows = <<CvRow1, CvRow2>>
  /\ kind = "file" =>
       link_rows = <<LinkRow(P001a, D1)>>
  /\ kind = "chatter" =>
       /\ feed_rows = <<FeedRow(1, P001a), FeedRow(2, P003a)>>
       /\ link_rows = <<>>

SpecLive == InitLive /\ [][Next]_vars /\ WF_vars(Next)

(* --------------- batch_find_records on its own (SpecResolver) -------- *)
\* the lengths of the id list: around the multiples of the batch size
IdCounts == {n \in 0..MaxIds : n % batch_size \in {0, 1, 2, batch_size - 1}}

InitResolver ==
  /\ kind = "resolver"
  /\ object_mappings = EmptyMap
  /\ link_rows = <<>> /\ cv_rows = <<>> /\ feed_rows = <<>>
  /\ comment_rows = <<>> /\ fa_rows = <<>>
  /\ files = {}
  /\ InitState
  /\ \E n \in IdCounts : property_values = [i \in 1..n |-> <<i>>]
  /\ remote_ids \in {{}, {<<i>> : i \in 1..MaxIds}, {<<i>> : i \in {j \in 1..MaxIds : j % 2 = 1}}}
  /\ res1 = NoResult /\ res2 = NoResult

\* batch_find_records(object_type, property_name, property_values)
ResolverCall ==
  /\ pc = "start" /\ kind = "resolver"
  /\ \E oracle \in SearchOracles(NumChunks(property_values)) :
       res1' = batch_find_records(property_values, oracle, remote_ids)
  /\ pc' = "called"
  /\ UNCHANGED <<inputs, loaded, report, units, remote, result, progress, todo, cur,
                 submitted, property_values, res2>>

\* mutant: the second call does not return again the records the first returned
ResolverCallAgainFreshOnly ==
  /\ pc = "called" /\ kind = "resolver"
  /\ \E oracle \in SearchOracles(NumChunks(property_values)) :
       res2' = batch_find_records(property_values, oracle, remote_ids \ DOMAIN res1.map)
  /\ pc' = "called_twice"
  /\ UNCHANGED <<inputs, loaded, report, units, remote, result, progress, todo, cur,
                 submitted, property_values, res1>>

\* the same call again, against the same remote
ResolverCallAgain ==
  /\ pc = "called" /\ kind = "resolver"
  /\ \E oracle \in SearchOracles(NumChunks(property_values)) :
       res2' = batch_find_records(property_values, oracle, remote_ids)
  /\ pc' = "called_twice"
  /\ UNCHANGED <<inputs, loaded, report, units, remote, result, progress, todo, cur,
                 submitted, property_values, res1>>

NextResolver == ResolverCall \/ ResolverCallAgain

SpecResolver == InitResolver /\ [][NextResolver]_vars

(* ============================ properties ============================= *)
Rows == csv_writer.rows
ExecStatuses == {"success", "partial", "error"}
RowsOf(sf) == {i \in 1..Len(Rows) : Rows[i].sf = sf}
RowsWith(sf, statuses) == {i \in RowsOf(sf) : Rows[i].status \in statuses}
CallsOf(sf, ops, results) ==
  {i \in 1..Len(calls) : calls[i].sf = sf /\ calls[i].op \in ops /\ calls[i].res \in results}

\* the executor loop is running or over
Executing == pc \in {"exec", "done"} \/ result = "csv_flush_error"

\* the units the executor was given
AllUnits ==
  IF kind = "file"
    THEN UNION {Range(all_processable_records[p]) : p \in DOMAIN all_processable_records}
    ELSE Range(processable_records)

\* the units the executor loop has started on and is through with
FinishedUnits ==
  IF kind = "file"
    THEN UNION {{all_processable_records[p][j] :
                   j \in 1..(IF p = cur.prefix THEN cur.i - 1
                             ELSE Len(all_processable_records[p]))} :
                p \in DOMAIN all_processable_records \ todo}
    ELSE {processable_records[j] : j \in 1..(IF cur.post = 0 THEN cur.i ELSE cur.i - 1)}

SummarySum(p) ==
  IF p \in DOMAIN summaries
    THEN summaries[p].success_count + summaries[p].skipped_count + summaries[p].error_count
    ELSE 0

\* C1: every unit the executor loop was through with has exactly one audit row, and
\* its status is success, partial or error; a unit not yet processed has none
Thm_C1 ==
  Executing =>
    /\ \A u \in FinishedUnits :
         /\ Cardinality(RowsOf(u.salesforce_id)) = 1
         /\ Cardinality(RowsWith(u.salesforce_id, ExecStatuses)) = 1
    /\ \A u \in AllUnits \ FinishedUnits : RowsOf(u.salesforce_id) = {}

Witness_C1 ==
  /\ pc = "done"
  /\ Cardinality(FinishedUnits) >= 2
  /\ \E u, v \in FinishedUnits :
       /\ RowsWith(u.salesforce_id, {"error"}) # {}
       /\ RowsWith(v.salesforce_id, {"success"}) # {}

\* C2: at the end of a run, for every prefix submitted to the resolver,
\* success_count + skipped_count + error_count = the number of ids submitted
Cex_C2 ==
  pc = "done" =>
    \A p \in DOMAIN submitted : SummarySum(p) = Cardinality(submitted[p].ids)

SkippedRowsOfPrefix(p) ==
  {i \in 1..Len(Rows) : Rows[i].status = "skipped" /\ Prefix3(Rows[i].sf) = p}

\* C3: when the resolver returned a map for a prefix, the skipped rows of the prefix
\* and its skipped_count both number the submitted ids that are no key of the map
Thm_C3 ==
  \A p \in DOMAIN submitted :
    submitted[p].ok =>
      LET missing == submitted[p].ids \ submitted[p].found
      IN /\ Cardinality(SkippedRowsOfPrefix(p)) = Cardinality(missing)
         /\ {Rows[i].sf : i \in SkippedRowsOfPrefix(p)} = missing
         /\ (IF p \in DOMAIN summaries THEN summaries[p].skipped_count ELSE 0)
              = Cardinality(missing)

Witness_C3 ==
  \E p \in DOMAIN submitted :
    /\ submitted[p].ok
    /\ Cardinality(submitted[p].ids) = 2
    /\ Cardinality(submitted[p].found) = 1
    /\ pc = "done"

\* C4: every submitted id without a resolved destination id has a skipped row and
\* no call was made for it, at the end of a run
Cex_C4 ==
  pc = "done" =>
    \A p \in DOMAIN submitted :
      \A id \in submitted[p].ids :
        id \notin DOMAIN hubspot_record_cache =>
          /\ Cardinality(RowsWith(id, {"skipped"})) = 1
          /\ CallsOf(id, {"exists", "upload", "note"}, {"ok", "err", "found", "none", "status"}) = {}

\* C5: every unit handed to the executor has a Salesforce id that is a key of the
\* map the resolver returned for its prefix, hence of the resolved-id cache
Thm_C5 ==
  \A u \in AllUnits :
    /\ u.salesforce_id \in DOMAIN hubspot_record_cache
    /\ Prefix3(u.salesforce_id) \in DOMAIN submitted
    /\ u.salesforce_id \in submitted[Prefix3(u.salesforce_id)].found

Witness_C5 ==
  /\ AllUnits # {}
  /\ \E p \in DOMAIN submitted : submitted[p].ids \ DOMAIN hubspot_record_cache # {}
  /\ pc = "exec"

\* C6: a file unit's row has status success iff a note was created for the unit,
\* and otherwise status error with the error text as reason
Cex_C6 ==
  kind = "file" =>
    \A i \in 1..Len(Rows) :
      Rows[i].status \in ExecStatuses =>
        /\ Rows[i].status = "success" <=> CallsOf(Rows[i].sf, {"note"}, {"ok"}) # {}
        /\ Rows[i].status # "success" => Rows[i].status = "error" /\ Rows[i].reason # ""

\* C7: the row of a feed unit with N posts of which K got a note has
\* Feed Items Count = N, Notes Created = K, and status success iff K = N,
\* partial iff 0 < K < N, error iff K = 0
Thm_C7 ==
  (kind = "chatter" /\ Executing) =>
    \A u \in FinishedUnits :
      LET N == Len(u.feed_items)
          K == Cardinality(CallsOf(u.salesforce_id, {"note"}, {"ok"}))
      IN \A i \in RowsOf(u.salesforce_id) :
           /\ Rows[i].feed_items_count = N
           /\ Rows[i].notes_created = K
           /\ Rows[i].status = "success" <=> K = N
           /\ Rows[i].status = "partial" <=> (0 < K /\ K < N)
           /\ Rows[i].status = "error" <=> K = 0

Witness_C7 ==
  /\ kind = "chatter" /\ pc = "done"
  /\ \E u \in FinishedUnits :
       /\ Len(u.feed_items) = 3
       /\ \E i \in RowsOf(u.salesforce_id) :
            Rows[i].status = "partial" /\ Rows[i].notes_created = 2

\* C8: every upload directly follows an existence check of the same unit for the
\* path the upload stores the file at, and no file the remote holds is uploaded
Cex_C8 ==
  \A i \in 1..Len(calls) :
    calls[i].op = "upload" =>
      /\ ~calls[i].held
      /\ i > 1
      /\ calls[i - 1].op = "exists"
      /\ calls[i - 1].sf = calls[i].sf
      /\ calls[i - 1].key = calls[i].key

\* C9: every attachment of a finished file unit had its existence checked, and a
\* unit with an attachment that was found or uploaded went on to note creation
Cex_C9 ==
  (kind = "file" /\ Executing) =>
    \A u \in FinishedUnits :
      LET atts == {i \in 1..Len(u.content_document_ids) :
                     u.content_document_ids[i] \in DOMAIN file_info}
      IN /\ Cardinality(CallsOf(u.salesforce_id, {"exists"},
                                {"found", "none", "status", "err"})) = Cardinality(atts)
         /\ (CallsOf(u.salesforce_id, {"exists"}, {"found"})
               \cup CallsOf(u.salesforce_id, {"upload"}, {"ok"}) # {})
              => CallsOf(u.salesforce_id, {"note"}, {"ok", "err"}) # {}

\* C10: whatever a search call comes to, batch_find_records issues one search call
\* per batch and returns the ids found by the batches whose call succeeded
Cex_C10 ==
  (kind = "resolver" /\ pc = "called") =>
    LET chs == chunks(property_values, batch_size)
        searches == SelectSeq(res1.calls, LAMBDA c : c.op = "search")
    IN /\ Len(searches) = Len(chs)
       /\ \A i \in 1..Len(searches) :
            searches[i].res = "ok" =>
              /\ res1.ok
              /\ Range(chs[i]) \cap remote_ids \subseteq DOMAIN res1.map


InputErrors == {"missing_file", "missing_column", "malformed_row"}
HubSpotOps == {"search", "exists", "upload", "note"}
HubSpotCalls == {i \in 1..Len(calls) : calls[i].op \in HubSpotOps}
NothingLoaded ==
  /\ target_records = EmptyMap /\ file_info = EmptyMap
  /\ filtered_target_records = EmptyMap /\ feed_items_by_prefix = EmptyMap
  /\ comments_by_feed_item = EmptyMap /\ content_document_links = EmptyMap
  /\ feed_attachments = EmptyMap
NoUnits == all_processable_records = EmptyMap /\ processable_records = <<>>

Thm_C12 ==
  result = "auth_error" =>
    /\ pc = "failed"
    /\ NothingLoaded
    /\ NoUnits
    /\ HubSpotCalls = {}
    /\ csv_writer.state = "none" /\ csv_writer.rows = <<>>

Witness_C12 ==
  /\ result = "auth_error"
  /\ pc = "failed"
  /\ \E i \in 1..Len(calls) : calls[i].op = "refresh" /\ calls[i].res = "err"


\* C13: every ProcessableRecord built by group_records_by_salesforce_id holds each
\* content id at most once
Cex_C13 ==
  \A p \in DOMAIN all_processable_records :
    \A u \in Range(all_processable_records[p]) :
      \A i, j \in 1..Len(u.content_document_ids) :
        i # j => u.content_document_ids[i] # u.content_document_ids[j]


(* ------- the comments of a post, loaded and grouped (SpecGroup) ------ *)
\* the i-th FeedComment row
CommentRow(i, feed_item_id, created_date) ==
  [id |-> <<"0", "D", "7", Alphabet[i + 1]>>, feed_item_id |-> feed_item_id,
   created_date |-> created_date, related_record_id |-> <<>>]

\* string-sortable timestamps: "1" < "10" < "2"
CommentDates == {<<"1">>, <<"1", "0">>, <<"2">>}

\* a FeedAttachment row
FaRow(feed_entity_id, record_id, attachment_type) ==
  [feed_entity_id |-> feed_entity_id, record_id |-> record_id,
   attachment_type |-> attachment_type]

\* ContentVersion ids: V1 is a row of ContentVersion.csv (of D1), V9 is not
V1 == <<"0", "6", "8", "1">>
V9 == <<"0", "6", "8", "9">>

\* inputs with up to MaxComments comments and no attachments
InitGroupComments ==
  /\ link_rows = <<>> /\ cv_rows = <<>> /\ fa_rows = <<>>
  /\ \E n \in 0..MaxComments :
       \E posts \in [1..n -> {FeedId(1), FeedId(2), FeedId(3)}], dates \in [1..n -> CommentDates] :
         comment_rows = [i \in 1..n |-> CommentRow(i, posts[i], dates[i])]

\* inputs with attachments from both tables, for target posts and for FeedId(3),
\* which is no row of FeedItem.csv
InitGroupAttachments ==
  /\ cv_rows = <<[id |-> V1, content_document_id |-> D1,
                  path_on_client |-> <<"a">>, version_data |-> TRUE]>>
  /\ fa_rows \in {<<>>} \cup SeqsUpTo({FaRow(e, r, t) : e \in {FeedId(1), FeedId(3)},
                                                       r \in {V1, V9, D1, D2},
                                                       t \in {"Content", "Link"}}, 2)
  /\ link_rows \in {<<>>, <<LinkRow(FeedId(1), D1)>>,
                     <<LinkRow(FeedId(1), D2), LinkRow(FeedId(1), D1)>>,
                     <<LinkRow(FeedId(1), D1), LinkRow(FeedId(1), D1)>>}
  /\ comment_rows \in {<<CommentRow(1, FeedId(3), <<"1">>)>>,
                        <<CommentRow(1, FeedId(1), <<"1">>), CommentRow(2, FeedId(3), <<"2">>)>>}

InitGroup ==
  /\ kind = "group"
  /\ object_mappings = MappingsBoth
  /\ feed_rows = <<FeedRow(1, P001a), FeedRow(2, P001a)>>
  /\ InitGroupComments \/ InitGroupAttachments
  /\ remote_ids \in {{P001a}, {}}
  /\ files = {}
  /\ InitState
  /\ property_values = <<>> /\ res1 = NoResult /\ res2 = NoResult

\* extract_chatter_records, then the loaders for the posts it kept
LoadComments ==
  /\ pc = "start" /\ kind = "group"
  /\ LET by_prefix == extract_chatter_records(feed_rows, object_mappings)
         target_feed_item_ids ==
           {r.id : r \in UNION {Range(by_prefix[p]) : p \in DOMAIN by_prefix}}
     IN /\ feed_items_by_prefix' = by_prefix
        /\ comments_by_feed_item' = load_feed_comments(comment_rows, target_feed_item_ids)
        /\ content_document_links' =
             load_chatter_content_document_links(link_rows, target_feed_item_ids)
        /\ feed_attachments' =
             load_feed_attachments(fa_rows, target_feed_item_ids,
                                   build_content_version_to_document_map(cv_rows))
  /\ pc' = "loaded"
  /\ UNCHANGED <<inputs, probe, target_records, file_info, filtered_target_records,
                 report, units, remote, result, progress, todo, cur, submitted>>

\* group_chatter_records with the parents the remote has a record for
GroupComments ==
  /\ pc = "loaded" /\ kind = "group"
  /\ LET found == [id \in remote_ids |-> HsId(id)]
     IN /\ hubspot_record_cache' = found
        /\ \E records \in Orderings(group_chatter_records(feed_items_by_prefix,
                            comments_by_feed_item, found, content_document_links,
                            feed_attachments)) :
             processable_records' = records
  /\ pc' = "grouped"
  /\ UNCHANGED <<inputs, probe, loaded, report, all_processable_records, remote,
                 result, progress, todo, cur, submitted>>

NextGroup == LoadComments \/ GroupComments

SpecGroup == InitGroup /\ [][NextGroup]_vars

\* the comment rows of a post, in input order
InputComments(feed_item_id) ==
  SelectSeq(comment_rows, LAMBDA r : r.feed_item_id = feed_item_id)
RowOf(comment) == CHOOSE n \in 1..Len(comment_rows) : comment_rows[n] = comment
GroupedItems ==
  UNION {Range(processable_records[i].feed_items) : i \in 1..Len(processable_records)}

\* C14: the comments of every FeedItemWithComments are the post's input comments,
\* each once, in ascending order of created_date, equal dates in input order
Thm_C14 ==
  (kind = "group" /\ pc = "grouped") =>
    \A item \in GroupedItems :
      LET input == InputComments(item.feed_item.id)
          out == item.comments
      IN /\ Len(out) = Len(input)
         /\ Range(out) = Range(input)
         /\ \A i, j \in 1..Len(out) :
              i < j =>
                /\ ~StrLess(out[j].created_date, out[i].created_date)
                /\ out[i].created_date = out[j].created_date => RowOf(out[i]) < RowOf(out[j])

Witness_C14 ==
  /\ kind = "group" /\ pc = "grouped"
  /\ \E item \in GroupedItems :
       /\ Len(InputComments(item.feed_item.id)) = 3
       /\ [i \in 1..3 |-> InputComments(item.feed_item.id)[i].created_date]
            = <<<<"2">>, <<"1">>, <<"1", "0">>>>
       /\ Len(item.comments) = 3
       /\ [i \in 1..3 |-> item.comments[i].created_date] = <<<<"1">>, <<"1", "0">>, <<"2">>>>


\* what the search calls of a batch_find_records call came to, in order
SearchResults(res) ==
  LET searches == SelectSeq(res.calls, LAMBDA c : c.op = "search")
  IN [i \in 1..Len(searches) |-> searches[i].res]

EndToEndScenario ==
  /\ kind = "file" /\ pc = "done"
  /\ link_rows = <<LinkRow(P001a, D1), LinkRow(P001a, D1)>>
  /\ P001a \in remote_ids
  /\ \A i \in 1..Len(calls) :
       (calls[i].op = "exists" /\ \A j \in 1..(i - 1) : calls[j].op # "exists")
         => ~calls[i].held
  /\ faults = 0

\* C16: the end-to-end scenario writes exactly one audit row, with status success,
\* Files Uploaded = 1 and Note Created = true
Thm_C16 ==
  EndToEndScenario =>
    /\ Len(Rows) = 1
    /\ Rows[1].sf = P001a
    /\ Rows[1].status = "success"
    /\ Rows[1].files_uploaded = 1
    /\ Rows[1].note_created = TRUE

Witness_C16 ==
  /\ EndToEndScenario
  /\ Len(Rows) = 1
  /\ Cardinality(CallsOf(P001a, {"upload"}, {"ok"})) = 1
  /\ Cardinality(CallsOf(P001a, {"exists"}, {"found"})) = 1


CsvErrors == {"csv_create_error", "csv_flush_error"}

\* the prefixes the resolver loop has to submit
MappedPrefixes ==
  (IF kind = "file" THEN DOMAIN filtered_target_records ELSE DOMAIN feed_items_by_prefix)
    \cap DOMAIN object_mappings

\* the run came to its end: every prefix was submitted, every unit has its row, the
\* complete/100 event was emitted and the summaries were returned
Completed ==
  /\ pc = "done" /\ result = "ok"
  /\ progress # <<>> /\ progress[Len(progress)] = ProgressInfo("complete", 100)
  /\ MappedPrefixes \subseteq DOMAIN submitted
  /\ FinishedUnits = AllUnits
  /\ \A u \in AllUnits : RowsWith(u.salesforce_id, ExecStatuses) # {}
  /\ csv_writer.state = "flushed"

EndedWith(errors) == pc = "failed" /\ result \in errors

\* C17 (amended): once validation and authentication have succeeded the run comes
\* to its end, whatever remote calls fail, unless an input error or an error in
\* creating or flushing the audit CSV ends it
Thm_C17 == (pc = "extract") ~> (Completed \/ EndedWith(InputErrors \cup CsvErrors))

Witness_C17 ==
  /\ Completed
  /\ faults = MaxFaults
  /\ \E p, q \in DOMAIN submitted : ~submitted[p].ok /\ submitted[q].ok
  /\ \E u \in AllUnits : RowsWith(u.salesforce_id, {"error"}) # {}

\* C17 as stated: once validation and authentication have succeeded the run comes
\* to its end unless an input error ends it
Cex_C17 == (pc = "extract") ~> (Completed \/ EndedWith(InputErrors))


(* ------- create_note_for_record and the record URL (SpecNote) -------- *)
\* the object names of the run: the standard ones and two custom objects
ObjectNames == DOMAIN StandardObjectTypeIds \cup {"cars", "p_pets"}

InitNote ==
  /\ kind = "note"
  /\ \E name \in ObjectNames :
       object_mappings = (Pre001 :> [hubspot_object |-> name, salesforce_property |-> "sf_id"])
  /\ link_rows = <<>> /\ cv_rows = <<>> /\ feed_rows = <<>>
  /\ comment_rows = <<>> /\ fa_rows = <<>>
  /\ remote_ids \in {{P001a}, {P001b}}
  /\ files \in {{}, {StoredPath(<<"a">>)}, {StoredPath(<<"a">>), StoredPath(<<"b">>)}}
  /\ InitState
  /\ property_values = <<>> /\ res1 = NoResult /\ res2 = NoResult

\* create_note_for_record for the record of the parent, with the files as attachments
CreateNote ==
  /\ pc = "start" /\ kind = "note"
  /\ \E sf \in remote_ids, outcome \in CallOutcomes, paths \in Orderings(files) :
       LET file_ids == [i \in 1..Len(paths) |-> FileId(paths[i])]
           r == create_note_for_record(HsId(sf), object_mappings[Pre001].hubspot_object,
                                       IF file_ids = <<>> THEN <<>> ELSE <<file_ids>>, outcome)
       IN /\ res1' = r
          /\ calls' = Append(calls, Event("note", sf, r.request, outcome))
  /\ pc' = "noted"
  /\ UNCHANGED <<inputs, loaded, report, units, files, faults, result, progress, todo, cur,
                 submitted, property_values, res2>>

\* build_record_url for the same record
BuildRecordUrl ==
  /\ pc = "noted" /\ kind = "note"
  /\ \E sf \in remote_ids :
       res2' = build_record_url("app.hubspot.com", "0",
                                object_mappings[Pre001].hubspot_object, HsId(sf))
  /\ pc' = "linked"
  /\ UNCHANGED <<inputs, loaded, report, units, remote, result, progress, todo, cur,
                 submitted, property_values, res1>>

NextNote == CreateNote \/ BuildRecordUrl

SpecNote == InitNote /\ [][NextNote]_vars

NoteObject == object_mappings[Pre001].hubspot_object
\* the type id in a record URL
UrlTypeId(url) == SubSeq(url, 6, Len(url) - 1 - Len(HsId(P001a)))

\* C18: the note is associated with type id 202 for contacts, 190 for companies,
\* 214 for deals, 226 for tickets and 202 for every other object type; the type id
\* of a record URL is the fixed id of a standard object name and "2-{name}" for
\* every other name
Thm_C18 ==
  (kind = "note" /\ pc \in {"noted", "linked"}) =>
    /\ NoteObject = "contacts" => res1.request.association_type_id = 202
    /\ NoteObject = "companies" => res1.request.association_type_id = 190
    /\ NoteObject = "deals" => res1.request.association_type_id = 214
    /\ NoteObject = "tickets" => res1.request.association_type_id = 226
    /\ NoteObject \notin {"contacts", "companies", "deals", "tickets"}
         => res1.request.association_type_id = 202
    /\ calls[Len(calls)].key.association_type_id = res1.request.association_type_id
    /\ pc = "linked" =>
         /\ NoteObject = "contacts" => UrlTypeId(res2) = <<"0-1">>
         /\ NoteObject = "companies" => UrlTypeId(res2) = <<"0-2">>
         /\ NoteObject = "deals" => UrlTypeId(res2) = <<"0-3">>
         /\ NoteObject = "tickets" => UrlTypeId(res2) = <<"0-5">>
         /\ NoteObject \in DOMAIN StandardObjectTypeIds
              => /\ Len(UrlTypeId(res2)) = 1
                 /\ \A other \in DOMAIN StandardObjectTypeIds \ {NoteObject} :
                      UrlTypeId(res2) # get_object_type_id(other)
         /\ NoteObject \notin DOMAIN StandardObjectTypeIds
              => UrlTypeId(res2) = <<"2-", NoteObject>>

Witness_C18 ==
  /\ kind = "note" /\ pc = "linked"
  /\ NoteObject = "deals"
  /\ res1.request.association_type_id = 214
  /\ UrlTypeId(res2) = <<"0-3">>


\* C19: create-note is called for a unit only if an attachment of the unit was
\* obtained (found or uploaded) or the unit required none, and a call without
\* attachment ids passes None, never an empty list
Cex_C19 ==
  \A i \in 1..Len(calls) :
    (calls[i].op = "note" /\ kind \in {"file", "chatter"}) =>
      /\ calls[i].key.atts # <<<<>>>>
      /\ kind = "file" => calls[i].key.atts # <<>>
      /\ kind = "chatter" =>
           \A r \in 1..Len(processable_records) :
             \A post \in Range(processable_records[r].feed_items) :
               (/\ processable_records[r].salesforce_id = calls[i].sf
                /\ post.feed_item.id = calls[i].key.post)
                 => (calls[i].key.atts # <<>> \/ post.feed_item_attachment_ids = <<>>)


\* C20: the search calls of batch_find_records carry batches of at most 100 ids
\* that partition the submitted ids, every id being sent in exactly one call, and
\* n ids cause exactly ceil(n/100) search calls
Cex_C20 ==
  (kind = "resolver" /\ pc = "called") =>
    LET searches == SelectSeq(res1.calls, LAMBDA c : c.op = "search")
        n == Len(property_values)
    IN /\ Len(searches) = (n + 99) \div 100
       /\ \A i \in 1..Len(searches) :
            /\ Len(searches[i].key) \in 1..100
            /\ \A k \in 1..Len(searches[i].key) :
                 /\ (i - 1) * 100 + k <= n
                 /\ searches[i].key[k] = property_values[(i - 1) * 100 + k]
       /\ \A j \in 1..n :
            /\ ((j - 1) \div 100) + 1 <= Len(searches)
            /\ ((j - 1) % 100) + 1 <= Len(searches[((j - 1) \div 100) + 1].key)


\* C21: every search call is followed by the inter-batch delay, whatever the call
\* came to, so that no two search calls of a run are issued without a delay
\* between them
Cex_C21 ==
  \A i \in 1..Len(calls) :
    calls[i].op = "search" =>
      /\ i < Len(calls)
      /\ calls[i + 1].op = "sleep"


\* C22: the pairs get_file_info_and_filter_records keeps are those whose content
\* item has payload, no prefix is kept with no pair, and every content id of a
\* processable unit has payload available
Cex_C22 ==
  kind = "file" =>
    /\ \A p \in DOMAIN filtered_target_records :
         /\ filtered_target_records[p] # <<>>
         /\ \A pr \in Range(filtered_target_records[p]) :
              /\ pr[2] \in DOMAIN file_info
              /\ file_info[pr[2]].version_data
    /\ \A u \in AllUnits :
         /\ u.content_document_ids # <<>>
         /\ \A doc \in Range(u.content_document_ids) :
              doc \in DOMAIN file_info /\ file_info[doc].version_data


\* C23: at the end of a run, uploaded_files of each prefix's summary is the number
\* of files uploaded to the remote for units of the prefix
Cex_C23 ==
  pc = "done" =>
    \A p \in DOMAIN summaries :
      summaries[p].uploaded_files =
        Cardinality({i \in 1..Len(calls) : /\ calls[i].op = "upload"
                                           /\ calls[i].res = "ok"
                                           /\ Prefix3(calls[i].sf) = p})


\* the calls of the given kind made for a unit with the given argument
CallsAbout(sf, op, key) ==
  {i \in 1..Len(calls) : calls[i].sf = sf /\ calls[i].op = op /\ calls[i].key = key}
\* the attachment references of a unit: <<post, position>> for a feed unit,
\* <<0, position>> for a file unit, with the content id referred to
References(u) ==
  IF kind = "file"
    THEN {<<0, k>> : k \in 1..Len(u.content_document_ids)}
    ELSE {<<j, k>> \in (1..Len(u.feed_items)) \X (1..MaxFeedRows * 2) :
            k <= Len(u.feed_items[j].feed_item_attachment_ids)}
ContentIdOf(u, ref) ==
  IF kind = "file" THEN u.content_document_ids[ref[2]]
  ELSE u.feed_items[ref[1]].feed_item_attachment_ids[ref[2]]
\* the references of a unit whose file is checked at / stored at the path
ReferencesWithPath(u, path, stored) ==
  {ref \in References(u) :
     /\ ContentIdOf(u, ref) \in DOMAIN file_info
     /\ path = IF stored THEN StoredPath(SafeFilename(file_info[ContentIdOf(u, ref)]))
                         ELSE CheckPath(SafeFilename(file_info[ContentIdOf(u, ref)]))}

\* C24: no remote operation is retried: no batch is searched twice, an attachment
\* reference of a unit causes at most one existence check and one upload attempt,
\* a file unit and a feed post at most one note creation attempt, whatever the
\* attempts come to; and a file that was uploaded stays on the remote
Thm_C24 ==
  (kind \in {"file", "chatter"}) =>
    /\ \A i, j \in 1..Len(calls) :
         (i < j /\ calls[i].op = "search" /\ calls[j].op = "search")
           => Range(calls[i].key) \cap Range(calls[j].key) = {}
    /\ \A u \in AllUnits :
         /\ \A i \in CallsOf(u.salesforce_id, {"exists"}, {"found", "none", "status", "err"}) :
              Cardinality(CallsAbout(u.salesforce_id, "exists", calls[i].key))
                <= Cardinality(ReferencesWithPath(u, calls[i].key, FALSE))
         /\ \A i \in CallsOf(u.salesforce_id, {"upload"}, {"ok", "err"}) :
              Cardinality(CallsAbout(u.salesforce_id, "upload", calls[i].key))
                <= Cardinality(ReferencesWithPath(u, calls[i].key, TRUE))
         /\ kind = "file" =>
              Cardinality(CallsOf(u.salesforce_id, {"note"}, {"ok", "err"})) <= 1
         /\ kind = "chatter" =>
              \A i, j \in CallsOf(u.salesforce_id, {"note"}, {"ok", "err"}) :
                i # j => calls[i].key.post # calls[j].key.post
    /\ \A i \in 1..Len(calls) :
         (calls[i].op = "upload" /\ calls[i].res = "ok") => calls[i].key \in files

Witness_C24 ==
  /\ kind = "chatter" /\ pc = "done"
  /\ \E u \in AllUnits :
       /\ CallsOf(u.salesforce_id, {"upload"}, {"err"}) # {}
       /\ CallsOf(u.salesforce_id, {"note"}, {"err"}) # {}
       /\ CallsOf(u.salesforce_id, {"upload"}, {"ok"}) # {}


(* ------------- the routing of rows by their prefix (SpecRoute) -------- *)
\* parent ids of rows: mapped, short, of another case, unmapped, empty, and with
\* a two-byte character in or before the third byte
RouteIds ==
  {P001a, <<"0", "0">>, <<"a", "0", "X", "1">>, <<"a", "0", "x", "1">>, <<"0", "0", "9", "a">>,
   <<>>, <<"a", "e-acute", "b", "1">>, <<"e-acute", "1">>, <<"a", "a", "e-acute">>}
RouteMappings ==
  {Pre001 :> MapContacts,
   <<"a", "0", "X">> :> MapCompanies,
   (Pre001 :> MapContacts) @@ (<<"e-acute", "1">> :> MapCompanies)}

InitRoute ==
  /\ kind = "route"
  /\ object_mappings \in RouteMappings
  /\ \E rows \in SeqsUpTo(RouteIds \X {D1, <<>>}, MaxLinkRows) :
       link_rows = [i \in 1..Len(rows) |-> LinkRow(rows[i][1], rows[i][2])]
  /\ \E parent \in RouteIds : feed_rows = <<FeedRow(1, P001a), FeedRow(2, parent)>>
  /\ cv_rows = <<>> /\ comment_rows = <<>> /\ fa_rows = <<>>
  /\ remote_ids = {} /\ files = {}
  /\ InitState
  /\ property_values = <<>> /\ res1 = NoResult /\ res2 = NoResult

\* the row makes `&id[..3]` panic
SlicePanics(id) == len(id) >= 3 /\ ~is_char_boundary(id, 3)

\* extract_target_records on ContentDocumentLink.csv
RouteLinks ==
  /\ pc = "start" /\ kind = "route"
  /\ IF \E r \in Range(link_rows) :
          r.content_document_id # <<>> /\ SlicePanics(r.linked_entity_id)
       THEN pc' = "failed" /\ result' = "panic" /\ UNCHANGED target_records
       ELSE /\ target_records' = extract_target_records(link_rows, object_mappings)
            /\ pc' = "links" /\ result' = result
  /\ UNCHANGED <<inputs, probe, file_info, filtered_target_records, feed_items_by_prefix,
                 comments_by_feed_item, content_document_links, feed_attachments,
                 report, units, remote, progress, todo, cur, submitted>>

\* extract_chatter_records on FeedItem.csv
RouteFeedItems ==
  /\ pc = "links" /\ kind = "route"
  /\ IF \E r \in Range(feed_rows) : SlicePanics(r.parent_id)
       THEN pc' = "failed" /\ result' = "panic" /\ UNCHANGED feed_items_by_prefix
       ELSE /\ feed_items_by_prefix' = extract_chatter_records(feed_rows, object_mappings)
            /\ pc' = "routed" /\ result' = result
  /\ UNCHANGED <<inputs, probe, target_records, file_info, filtered_target_records,
                 comments_by_feed_item, content_document_links, feed_attachments,
                 report, units, remote, progress, todo, cur, submitted>>

NextRoute == RouteLinks \/ RouteFeedItems

SpecRoute == InitRoute /\ [][NextRoute]_vars

\* the first 3 characters of the id (all of it when it has fewer)
First3(id) == SubSeq(id, 1, Min(3, Len(id)))
RoutedByCharacters(id) == Len(id) >= 3 /\ First3(id) \in DOMAIN object_mappings
Bucket(map, prefix) == IF prefix \in DOMAIN map THEN Range(map[prefix]) ELSE {}

\* C25: a link row or post row is in the bucket of the first 3 characters of its
\* parent id iff the id has at least 3 characters that are, case-sensitively, a
\* mapping key (and a link row's content reference is not empty); every other row
\* is dropped and the read goes on without an error
Cex_C25 ==
  kind = "route" =>
    /\ result # "panic"
    /\ pc \in {"links", "routed"} =>
         \A r \in Range(link_rows) :
           \A prefix \in DOMAIN object_mappings \cup {First3(r.linked_entity_id)} :
             (<<r.linked_entity_id, r.content_document_id>> \in Bucket(target_records, prefix))
               <=> /\ RoutedByCharacters(r.linked_entity_id)
                   /\ prefix = First3(r.linked_entity_id)
                   /\ r.content_document_id # <<>>
    /\ pc = "routed" =>
         \A r \in Range(feed_rows) :
           \A prefix \in DOMAIN object_mappings \cup {First3(r.parent_id)} :
             (r \in Bucket(feed_items_by_prefix, prefix))
               <=> /\ RoutedByCharacters(r.parent_id)
                   /\ prefix = First3(r.parent_id)


\* the ids of the posts of FeedItem.csv that were routed to a prefix
TargetPosts ==
  {r.id : r \in UNION {Range(feed_items_by_prefix[p]) : p \in DOMAIN feed_items_by_prefix}}
\* the FeedAttachment rows of a post that carry content
ContentRows(post) ==
  SelectSeq(fa_rows, LAMBDA r : /\ r.feed_entity_id = post
                                /\ r.attachment_type \in {"Content", "InlineImage"})
LoadedAttachments(post) ==
  IF post \in DOMAIN feed_attachments THEN feed_attachments[post] ELSE <<>>

\* C26: load_feed_attachments records, for every content row of a target post, the
\* owning content-item id when the reference is a version id (068...) that
\* ContentVersion.csv has a row for, and the reference itself in every other case;
\* no row is dropped and no error raised for a missing translation
Thm_C26 ==
  (kind = "group" /\ pc \in {"loaded", "grouped"}) =>
    /\ result = "running"
    /\ DOMAIN feed_attachments \subseteq TargetPosts
    /\ \A post \in TargetPosts :
         LET rows == ContentRows(post)
             out == LoadedAttachments(post)
         IN /\ Len(out) = Len(rows)
            /\ \A i \in 1..Len(rows) :
                 LET ref == rows[i].record_id
                     versions == {n \in 1..Len(cv_rows) : cv_rows[n].id = ref}
                 IN IF SubSeq(ref, 1, 3) = <<"0", "6", "8">> /\ versions # {}
                      THEN \E n \in versions : out[i] = cv_rows[n].content_document_id
                      ELSE out[i] = ref

Witness_C26 ==
  /\ kind = "group" /\ pc = "loaded"
  /\ [i \in 1..Len(ContentRows(FeedId(1))) |-> ContentRows(FeedId(1))[i].record_id] = <<V9, V1>>
  /\ LoadedAttachments(FeedId(1)) = <<V9, D1>>


\* the content ids the ContentDocumentLink table has for a post
LinkedContentIds(post) ==
  {r.content_document_id : r \in {x \in Range(link_rows) : x.linked_entity_id = post}}

\* C27: feed_item_attachment_ids of every post of a unit holds exactly the ids the
\* post has in the content-document-link table or in the loaded feed attachments,
\* each once; and comments are bucketed only under target posts
Thm_C27 ==
  (kind = "group" /\ pc \in {"loaded", "grouped"}) =>
    /\ DOMAIN comments_by_feed_item \subseteq TargetPosts
    /\ \A post \in TargetPosts :
         Len(IF post \in DOMAIN comments_by_feed_item THEN comments_by_feed_item[post] ELSE <<>>)
           = Len(InputComments(post))
    /\ pc = "grouped" =>
         \A item \in GroupedItems :
           LET ids == item.feed_item_attachment_ids
           IN /\ Range(ids) = LinkedContentIds(item.feed_item.id)
                                \cup Range(LoadedAttachments(item.feed_item.id))
              /\ \A i, j \in 1..Len(ids) : i # j => ids[i] # ids[j]

Witness_C27 ==
  /\ kind = "group" /\ pc = "grouped"
  /\ \E r \in Range(comment_rows) : r.feed_item_id = FeedId(3)
  /\ \E item \in GroupedItems :
       /\ item.feed_item.id = FeedId(1)
       /\ Len(link_rows) = 2 /\ LinkedContentIds(FeedId(1)) = {D1}
       /\ LoadedAttachments(FeedId(1)) = <<D2, D1>>
       /\ item.feed_item_attachment_ids = <<D1, D2>>


(* ---- runs with mapping keys that are not 3 characters long (SpecKeys) ---- *)
\* the mappings of the command, with or without a key of 2 characters that is a
\* prefix of the two others
InitKeys ==
  /\ object_mappings \in
       {MappingsBoth,
        MappingsBoth @@ (<<"0", "0">> :> [hubspot_object |-> "deals",
                                          salesforce_property |-> "sf_id"])}
  /\ cv_rows = <<CvRow1, CvRow2>>
  /\ remote_ids = {P001a, P003a}
  /\ files = {}
  /\ InitState
  /\ \/ /\ InitFile
        /\ link_rows = <<LinkRow(P001a, D1)>>
     \/ /\ InitChatter
        /\ feed_rows = <<FeedRow(1, P001a), FeedRow(2, P003a)>>
        /\ link_rows = <<>>
  /\ property_values = <<>> /\ res1 = NoResult /\ res2 = NoResult

SpecKeys == InitKeys /\ [][Next]_vars

\* C28: the object a chatter unit's notes are created for and its audit row names
\* is that of object_mappings[first 3 characters of the parent id], the mapping
\* its destination id was resolved with
Cex_C28 ==
  kind = "chatter" =>
    /\ \A i \in 1..Len(calls) :
         calls[i].op = "note" =>
           calls[i].key.object = object_mappings[Prefix3(calls[i].sf)].hubspot_object
    /\ \A i \in 1..Len(Rows) :
         Rows[i].object = object_mappings[Prefix3(Rows[i].sf)].hubspot_object


(* ------- runs with two prefixes of one and two units (SpecProgress) ------ *)
InitProgress ==
  /\ object_mappings = MappingsBoth
  /\ cv_rows = <<CvRow1, CvRow2>>
  /\ remote_ids = ParentIds
  /\ files = {}
  /\ InitState
  /\ comment_rows = <<>> /\ fa_rows = <<>>
  /\ \/ /\ kind = "file"
        /\ link_rows = <<LinkRow(P001a, D1), LinkRow(P001b, D1), LinkRow(P003a, D1)>>
        /\ feed_rows = <<>>
     \/ /\ kind = "chatter"
        /\ feed_rows = <<FeedRow(1, P001a), FeedRow(2, P001b), FeedRow(3, P003a)>>
        /\ link_rows = <<>>
  /\ property_values = <<>> /\ res1 = NoResult /\ res2 = NoResult

SpecProgress == InitProgress /\ [][Next]_vars

\* C29: the percentages of the progress events of a run are within 0..100 and
\* never decrease from one event to the next, and 100 comes only with the last
\* event of a run that completed
Cex_C29 ==
  \A i \in 1..Len(progress) :
    /\ progress[i].progress \in 0..100
    /\ i > 1 => progress[i - 1].progress <= progress[i].progress
    /\ progress[i].progress = 100 => (i = Len(progress) /\ pc = "done")


\* the create-note calls made for a unit, in the order they were made
NotesOf(sf) == SelectSeq(calls, LAMBDA c : c.op = "note" /\ c.sf = sf)

\* C30: the posts of a feed unit are in ascending order of created_date, and the
\* create-note calls of the unit are issued for them in that order, one post
\* after the other
Thm_C30 ==
  kind = "chatter" =>
    \A u \in AllUnits :
      /\ \A i, j \in 1..Len(u.feed_items) :
           i < j => ~StrLess(u.feed_items[j].feed_item.created_date,
                             u.feed_items[i].feed_item.created_date)
      /\ Len(NotesOf(u.salesforce_id)) <= Len(u.feed_items)
      /\ \A k \in 1..Len(NotesOf(u.salesforce_id)) :
           NotesOf(u.salesforce_id)[k].key.post = u.feed_items[k].feed_item.id
      /\ u \in FinishedUnits => Len(NotesOf(u.salesforce_id)) = Len(u.feed_items)

Witness_C30 ==
  /\ kind = "chatter" /\ pc = "done"
  /\ \E u \in AllUnits :
       /\ Len(u.feed_items) = 3
       /\ [k \in 1..3 |-> u.feed_items[k].feed_item.id] = <<FeedId(2), FeedId(1), FeedId(3)>>
       /\ [k \in 1..3 |-> NotesOf(u.salesforce_id)[k].key.post]
            = <<FeedId(2), FeedId(1), FeedId(3)>>

=============================================================================
